---- MODULE Spec2Model ----
(***************************************************************************)
(* The two-phase intent-confirmation engine of the Flow crypto assistant.  *)
(*                                                                         *)
(* The repository holds three deployments of the same engine:              *)
(*   "rest_agent" src/ai_agent_special/agent_special.py (uAgents REST,     *)
(*                the only one wired to a real executor),                  *)
(*   "fastapi"    src/ai_agent_special/simple_api.py and standalone_api.py *)
(*                (same handlers, simulated execution),                    *)
(*   "msg_agent"  src/agent_special.py (uAgents messages, no history).     *)
(* A behaviour of this module is one process of one deployment serving     *)
(* requests.  Handlers are asyncio coroutines: a handler runs atomically   *)
(* from one real suspension point (a network await) to the next.           *)
(*                                                                         *)
(* Numbers: an amount is an integer number of tokens, a confidence is in   *)
(* hundredths (0.95 is 95).  An optional value (a dict key that may be     *)
(* absent) is a set with at most one element.                              *)
(***************************************************************************)
EXTENDS Integers, Sequences, FiniteSets, TLC

VARIABLES
    variant,                 \* which deployment this process runs
    hash_of,                 \* Python's per-process str hash, fixed at start
    conversation_histories,  \* user_id -> list of turns (keys appear on first store)
    pending_actions,         \* action_id -> ParsedAction
    reqs,                    \* requests suspended at an await, by slot
    executor_calls,          \* CryptoFunctions invocations so far: call -> count
    stored_count,            \* action_id -> times a handler stored it
    consumed_count,          \* action_id -> times a confirmation popped it
    full_turns,              \* user_id -> every turn a completed call appended
    overlapped,              \* users one of whose requests began during another
    n_requests,              \* requests received so far
    last,                    \* the handler step just taken and what it returned
    chain,                   \* scan_vault.py: what the RPC provider serves
    found_contracts,         \* ERC4626Scanner.found_contracts
    verified_vaults,         \* ERC4626Scanner.verified_vaults: address -> info
    failed_contracts,        \* ERC4626Scanner.failed_contracts
    scan,                    \* where main() is, and scan_for_vaults' locals
    probes,                  \* address -> what its contract calls answered
    results_data,            \* the report display_results built
    crypto_call              \* a perform_complete_swap / _stake call and its locals

engine_vars == <<hash_of, conversation_histories, pending_actions, reqs,
                 executor_calls, stored_count, consumed_count, full_turns,
                 overlapped, n_requests, last>>

scanner_vars == <<chain, found_contracts, verified_vaults, failed_contracts, scan,
                  probes, results_data>>

executor_vars == <<crypto_call>>

vars == <<variant, engine_vars, scanner_vars, executor_vars>>

----------------------------------------------------------------------------
(* Program constants *)

MAX_HISTORY_LENGTH == 10
\* parsed_action.confidence < 0.3, in hundredths
AGENT_CONFIDENCE_THRESHOLD == 30
\* parsed_action.confidence < 0.7, in hundredths
CONFIDENCE_THRESHOLD == 70
\* len(address) >= 8
MIN_ADDRESS_LENGTH == 8

\* src/scan_vault.py: get_logs_in_chunks(chunk_size=10000) and
\* main()'s scan_for_vaults(blocks_to_scan=20000)
CHUNK_SIZE == 10000
BLOCKS_TO_SCAN == 20000

(* Bounds of the model *)

\* requests (talk and confirm together) a run receives, per specification
MaxRequests == 3
MaxInputRequests == 2
MaxHistoryRequests == 6

\* calls of one probed contract that raise
MaxFailedMethods == 1

Variants == {"rest_agent", "fastapi", "msg_agent"}
Users == {"u1", "u2"}
Texts == {"ta", "tb"}
\* requests that can be suspended at the same time
Slots == {1, 2}

----------------------------------------------------------------------------
(* Optional values *)

Absent == {}
Some(x) == {x}
Has(opt) == opt # {}
The(opt) == CHOOSE x \in opt : TRUE
\* dict.get(key, default)
GetOr(opt, default) == IF opt = {} THEN default ELSE The(opt)

\* Python's slice lst[-n:]
LastN(lst, n) == IF Len(lst) <= n THEN lst ELSE SubSeq(lst, Len(lst) - n + 1, Len(lst))

\* d[k] = v on a dict modelled as a function with a growing domain
Put(d, k, v) == [x \in DOMAIN d \cup {k} |-> IF x = k THEN v ELSE d[x]]
\* d without key k
Drop(d, k) == [x \in DOMAIN d \ {k} |-> d[x]]
\* dict.get(k, []) for the history map
HistoryOf(d, k) == IF k \in DOMAIN d THEN d[k] ELSE <<>>
\* a counter map's value
CountOf(d, k) == IF k \in DOMAIN d THEN d[k] ELSE 0
Bump(d, k) == Put(d, k, CountOf(d, k) + 1)

----------------------------------------------------------------------------
(* Data model: ParsedAction, the requests and the responses *)

ActionTypes == {"stake", "swap", "balance", "vault", "conversation", "unknown"}

\* class ActionType(Enum) of each deployment; simple_api.py imports the REST
\* agent's enum, src/agent_special.py (and standalone_api.py) have no VAULT
ActionTypeEnum(v) == IF v = "msg_agent" THEN ActionTypes \ {"vault"} ELSE ActionTypes

\* ParsedAction.parameters with no key present
NoParams ==
    [amount |-> {}, validator |-> {}, from_token |-> {}, to_token |-> {},
     wallet_address |-> {}, vault_action |-> {}, vault_address |-> {}, shares |-> {}]

\* the keys of p that are not in keep, removed
Only(p, keep) ==
    [k \in DOMAIN p |-> IF k \in keep THEN p[k] ELSE {}]

\* an address string, by the two things the code looks at
Address(starts0x, length) == [starts_0x |-> starts0x, len |-> length]

ParsedAction(type, conf, params, raw, reply) ==
    [action_type |-> type, confidence |-> conf, parameters |-> params,
     raw_message |-> raw, user_response |-> reply]

\* a piece of text: a user's message or a reply, by what it was built from
Msg(kind, text, about, params) ==
    [kind |-> kind, text |-> text, about |-> about, parameters |-> params]
Plain(kind, text) == Msg(kind, text, "", NoParams)

Turn(role, content) == [role |-> role, content |-> content]

\* ActionResponse(success, message, function_call, function_result,
\*                requires_confirmation, action_id)
ActionResponse(success, message, function_call, requires_confirmation, action_id) ==
    [success |-> success, message |-> message, function_call |-> function_call,
     requires_confirmation |-> requires_confirmation, action_id |-> action_id]

\* raise HTTPException(status_code, detail): the caller gets no ActionResponse
HTTPException(status, detail) == [fault |-> status, detail |-> detail]

IsActionResponse(r) == "success" \in DOMAIN r

\* action ids: f"{user_id}_{os.urandom(4).hex()}" (type = "") and
\* f"{user_id}_{action_type}_{hash(raw_message)}"
ActionId(user, type, token) == [user |-> user, type |-> type, token |-> token]

\* os.urandom(4).hex(): any value may come out, also one seen before
RandomTokens == {"r0", "r1"}
\* values of hash(str)
HashValues == {"h0", "h1"}

ActionIds(v) ==
    IF v = "msg_agent"
    THEN {ActionId(u, t, h) : u \in Users, t \in {"stake", "swap"}, h \in HashValues}
    ELSE {ActionId(u, "", r) : u \in Users, r \in RandomTokens}

----------------------------------------------------------------------------
(* The classifier: FlowCryptoAI.analyze_message *)

\* What the LLM call produced: a JSON object, or one of the failures
LLMReply(type, conf, params, reply) ==
    [status |-> "json", action_type |-> type, confidence |-> conf,
     parameters |-> params, user_response |-> reply]
LLMFailure(status) ==
    [status |-> status, action_type |-> "", confidence |-> 0,
     parameters |-> NoParams, user_response |-> ""]
LLMFailures == {LLMFailure(s) : s \in {"empty", "malformed_json", "transport_error"}}

\* the except branch: ActionType.CONVERSATION, confidence 0.5, no parameters
FallbackAction(raw) == ParsedAction("conversation", 50, NoParams, raw, "fallback_rephrase")

\* fault: the action_type string is taken as it is, ActionType(...) never raises
AnalyzeMessageTrustsTheType(v, raw, llm) ==
    IF llm.status # "json" THEN FallbackAction(raw)
    ELSE ParsedAction(llm.action_type, llm.confidence, llm.parameters, raw,
                      llm.user_response)

\* try: ... json.loads(content) ... ActionType(ai_response.get("action_type"))
\* except Exception: the fallback.  raw is the last user message.
analyze_message(v, raw, llm) ==
    IF llm.status # "json" THEN FallbackAction(raw)
    ELSE IF llm.action_type \notin ActionTypeEnum(v) THEN FallbackAction(raw)
    ELSE ParsedAction(llm.action_type, llm.confidence, llm.parameters, raw,
                      llm.user_response)

----------------------------------------------------------------------------
(* Validation, confirmation prompts and function calls, per deployment *)

\* Python's `not x` on an optional number / string
NotNumber(opt) == opt = {} \/ The(opt) = 0
NotString(opt) == opt = {} \/ The(opt) = ""

NoError == ""

\* src/ai_agent_special/agent_special.py: "Unchanged validation logic", return None
AgentValidate(action) == NoError

\* simple_api.py / standalone_api.py validate_action_parameters
ApiValidate(action) ==
    LET p == action.parameters IN
    IF action.action_type = "stake" THEN
        IF NotNumber(p.amount) THEN "stake_amount_missing"
        ELSE IF NotString(p.validator) THEN "stake_validator_missing"
        ELSE NoError
    ELSE IF action.action_type = "swap" THEN
        IF NotNumber(p.amount) THEN "swap_amount_missing"
        ELSE IF NotString(p.from_token) THEN "swap_from_token_missing"
        ELSE IF NotString(p.to_token) THEN "swap_to_token_missing"
        ELSE NoError
    ELSE NoError

\* src/agent_special.py FlowCryptoAgent.validate_action_parameters
MsgAgentValidate(action) ==
    LET p == action.parameters IN
    IF action.action_type = "stake" THEN
        IF NotNumber(p.amount) \/ The(p.amount) <= 0 THEN "stake_amount_not_positive"
        ELSE IF NotString(p.validator) THEN "stake_validator_missing"
        ELSE NoError
    ELSE IF action.action_type = "swap" THEN
        IF NotNumber(p.amount) \/ The(p.amount) <= 0 THEN "swap_amount_not_positive"
        ELSE IF NotString(p.from_token) \/ NotString(p.to_token) THEN "swap_tokens_missing"
        ELSE IF The(p.from_token) = The(p.to_token) THEN "swap_same_token"
        ELSE NoError
    ELSE NoError

validate_action_parameters(v, action) ==
    IF v = "rest_agent" THEN AgentValidate(action)
    ELSE IF v = "fastapi" THEN ApiValidate(action)
    ELSE MsgAgentValidate(action)

\* generate_confirmation_message: which action type and parameters the prompt names
ConfirmationPrompt(v, action) ==
    LET t == action.action_type
        p == action.parameters IN
    IF t = "stake" THEN [about |-> "stake", parameters |-> Only(p, {"amount", "validator"})]
    ELSE IF t = "swap" /\ v # "rest_agent"
    THEN [about |-> "swap", parameters |-> Only(p, {"amount", "from_token", "to_token"})]
    ELSE [about |-> "", parameters |-> NoParams]

\* generate_function_call: the function named and the parameters passed
generate_function_call(v, action) ==
    LET t == action.action_type
        p == action.parameters IN
    IF t = "stake"
    THEN [fn |-> "stake_tokens", parameters |-> Only(p, {"amount", "validator"})]
    ELSE IF t = "swap" /\ v # "rest_agent"
    THEN [fn |-> "swap_tokens", parameters |-> Only(p, {"amount", "from_token", "to_token"})]
    ELSE IF t = "balance" /\ v # "msg_agent"
    THEN [fn |-> "check_balance", parameters |-> Only(p, {"wallet_address"})]
    ELSE [fn |-> "unknown_function", parameters |-> NoParams]

----------------------------------------------------------------------------
(* Deciding the response to a classified message *)

\* what a handler decided: the response, and the registry entry it stored (if any)
Decision(response, store) == [response |-> response, store |-> store]
NoStore == {}
Store(id, action) == {[id |-> id, action |-> action]}

Reply(success, text) ==
    ActionResponse(success, Plain("reply", text), Absent, FALSE, Absent)
Failure(kind, text) ==
    ActionResponse(FALSE, Plain(kind, text), Absent, FALSE, Absent)

\* fault: the confirmation is asked for an action that was never stored
AskWithoutStoring(v, action, id) ==
    Decision(
        ActionResponse(TRUE, Plain("confirmation_request", action.user_response),
                       Absent, TRUE, Some(id)),
        {})

\* the tail of process_action / process_crypto_action / process_critical_action:
\* store the action under a new id and ask for confirmation
AskConfirmation(v, action, id) ==
    LET prompt == ConfirmationPrompt(v, action) IN
    Decision(
        ActionResponse(TRUE,
            Msg("confirmation_request", action.user_response, prompt.about,
                prompt.parameters),
            Absent, TRUE, Some(id)),
        Store(id, action))

\* fault: the `if action.action_type == ActionType.BALANCE` branch is missing
ProcessActionAsksForBalance(v, action, user_id, token) ==
    LET error == validate_action_parameters(v, action) IN
    IF error # NoError THEN Decision(Failure("validation_error", error), NoStore)
    ELSE AskConfirmation(v, action, ActionId(user_id, "", token))

\* FlowCryptoAgent.process_action (REST agent) and process_crypto_action (FastAPI)
process_action(v, action, user_id, token) ==
    LET error == validate_action_parameters(v, action) IN
    IF error # NoError THEN Decision(Failure("validation_error", error), NoStore)
    ELSE IF action.action_type = "balance" THEN
        LET call == generate_function_call(v, action) IN
        Decision(
            ActionResponse(TRUE,
                IF v = "rest_agent" THEN Plain("reply", action.user_response)
                ELSE Msg("reply_and_call", action.user_response, call.fn, call.parameters),
                Some(call), FALSE, Absent),
            NoStore)
    ELSE AskConfirmation(v, action, ActionId(user_id, "", token))

\* FlowCryptoAgent.validate_wallet_address (src/agent_special.py)
validate_wallet_address(address) ==
    address.starts_0x /\ address.len >= MIN_ADDRESS_LENGTH

\* FlowCryptoAgent.process_balance_action (src/agent_special.py)
process_balance_action(action) ==
    LET wallet == action.parameters.wallet_address IN
    IF wallet = {} \/ The(wallet).len = 0
    THEN Decision(Failure("validation_error", "wallet_address_missing"), NoStore)
    ELSE IF ~validate_wallet_address(The(wallet))
    THEN Decision(Failure("validation_error", "wallet_address_invalid"), NoStore)
    ELSE Decision(
        ActionResponse(TRUE,
            Msg("checking_balance", "", "check_balance",
                Only(action.parameters, {"wallet_address"})),
            Some([fn |-> "check_balance",
                  parameters |-> Only(action.parameters, {"wallet_address"})]),
            FALSE, Absent),
        NoStore)

\* FlowCryptoAgent.process_critical_action (src/agent_special.py)
process_critical_action(action, user_id, hash) ==
    LET error == validate_action_parameters("msg_agent", action) IN
    IF error # NoError THEN Decision(Failure("validation_error", error), NoStore)
    ELSE AskConfirmation("msg_agent", action,
                         ActionId(user_id, action.action_type, hash))

\* FlowCryptoAgent.process_action (src/agent_special.py)
msg_agent_process_action(action, user_id, hash) ==
    IF action.action_type = "balance" THEN process_balance_action(action)
    ELSE IF action.action_type \in {"stake", "swap"}
    THEN process_critical_action(action, user_id, hash)
    ELSE Decision(Failure("unsupported", "action_type_not_supported"), NoStore)

\* `user_response or default`
OrDefault(text, default) == IF text = "" THEN default ELSE text

\* handle_talk_request, lines 925-939: the REST agent's routing
AgentRoute(action, user_id, token) ==
    IF action.action_type \in {"stake", "swap", "vault"}
    THEN process_action("rest_agent", action, user_id, token)
    ELSE IF action.action_type \in {"conversation", "unknown"}
            \/ action.confidence < AGENT_CONFIDENCE_THRESHOLD
    THEN Decision(Reply(TRUE, action.user_response), NoStore)
    ELSE process_action("rest_agent", action, user_id, token)

\* chat, lines 104-113 (simple_api.py), 210-219 (standalone_api.py)
ApiRoute(action, user_id, token) ==
    IF action.action_type \in {"conversation", "unknown"}
       \/ action.confidence < CONFIDENCE_THRESHOLD
    THEN Decision(Reply(TRUE, action.user_response), NoStore)
    ELSE process_action("fastapi", action, user_id, token)

\* handle_user_message, lines 263-287 (src/agent_special.py)
MsgAgentRoute(action, user_id, hash) ==
    IF action.action_type = "conversation"
    THEN Decision(Reply(TRUE, action.user_response), NoStore)
    ELSE IF action.action_type = "unknown"
    THEN Decision(Reply(FALSE, OrDefault(action.user_response, "default_not_understood")),
                  NoStore)
    ELSE IF action.confidence < CONFIDENCE_THRESHOLD
    THEN Decision(Reply(FALSE, OrDefault(action.user_response, "default_not_sure")),
                  NoStore)
    ELSE msg_agent_process_action(action, user_id, hash)

Route(v, action, user_id, token) ==
    IF v = "rest_agent" THEN AgentRoute(action, user_id, token)
    ELSE IF v = "fastapi" THEN ApiRoute(action, user_id, token)
    ELSE MsgAgentRoute(action, user_id, token)

----------------------------------------------------------------------------
(* State *)

Idle == [kind |-> "idle"]

\* a /talk or /chat request suspended in `await self.ai.analyze_message(history)`;
\* history is the handler's local list
TalkRequest(user_id, content, history) ==
    [kind |-> "talk", user_id |-> user_id, content |-> content, history |-> history]

\* a /confirm request suspended in an executor call; action is what it popped
ConfirmRequest(user_id, action_id, action, awaiting) ==
    [kind |-> "confirm", user_id |-> user_id, action_id |-> action_id,
     action |-> action, awaiting |-> awaiting]

\* the handler step just taken
Step(handler, phase, user_id, action_id, confirmed, action, response) ==
    [handler |-> handler, phase |-> phase, user_id |-> user_id,
     action_id |-> action_id, confirmed |-> confirmed, action |-> action,
     result |-> Absent, response |-> response]


\* one invocation of a CryptoFunctions method on behalf of a confirmation
Call(op, action_id, user_address) ==
    [op |-> op, action_id |-> action_id, user_address |-> user_address]

\* no perform_complete_swap or perform_complete_stake call has been made
NotCalled == [pc |-> "not_called"]

\* ERC4626Scanner.__init__: three empty collections
ScannerConstructed ==
    /\ found_contracts = {}
    /\ verified_vaults = << >>
    /\ failed_contracts = {}

\* the processes that serve requests run no scan
ScannerNotRunning ==
    /\ ScannerConstructed
    /\ chain = [block_number |-> 0, logs |-> {}]
    /\ scan = [pc |-> "not_started"]
    /\ probes = << >>
    /\ results_data = Absent

InitWith(vs) ==
    /\ variant \in vs
    /\ hash_of \in IF variant = "msg_agent" THEN [Texts -> HashValues]
                   ELSE {[t \in Texts |-> "h0"]}
    /\ conversation_histories = << >>
    /\ pending_actions = << >>
    /\ reqs = [s \in Slots |-> Idle]
    /\ executor_calls = << >>
    /\ stored_count = << >>
    /\ consumed_count = << >>
    /\ full_turns = [u \in Users |-> << >>]
    /\ overlapped = {}
    /\ n_requests = 0
    /\ last = Step("none", "none", "", Absent, FALSE, Absent, Absent)
    /\ ScannerNotRunning
    /\ crypto_call = NotCalled

Init == InitWith(Variants)

----------------------------------------------------------------------------
(* handle_message: /talk (REST agent), /chat (FastAPI), UserMessage (message agent) *)

\* a request of user_id begins: it overlaps when another one of theirs is suspended
Begin(user_id) ==
    overlapped' =
        IF \E s \in Slots : reqs[s] # Idle /\ reqs[s].user_id = user_id
        THEN overlapped \cup {user_id} ELSE overlapped

\* the run has a request left for user_id; `once` is the run's choice to let a
\* user's requests overlap one time only: a user who has overlapped begins no
\* request on top of a suspended one
MayBegin(user_id, bound, once) ==
    /\ n_requests < bound
    /\ once => ~( /\ user_id \in overlapped
                  /\ \E s \in Slots : reqs[s] # Idle /\ reqs[s].user_id = user_id )

UserTurn(text) == Turn("user", Plain("text", text))

\* lines 913-915: history = self.conversation_histories.get(user_id, []);
\* history.append(user turn); history = history[-MAX_HISTORY_LENGTH:].
\* get() hands back the stored list itself, so the append lands in the stored
\* list when the user has one; the slice is a new list.
StoredAfterAppend(histories, user_id, turn) ==
    IF user_id \in DOMAIN histories
    THEN [histories EXCEPT ![user_id] = Append(@, turn)]
    ELSE histories

LocalAfterAppend(histories, user_id, turn) ==
    LastN(Append(HistoryOf(histories, user_id), turn), MAX_HISTORY_LENGTH)

\* fault: the stored list is not sliced
SaveHistoryUnbounded(histories, user_id, history, turn) ==
    Put(histories, user_id, Append(history, turn))

\* fault: the slice keeps the head of the list, history[:MAX_HISTORY_LENGTH]
SaveHistoryKeepsOldest(histories, user_id, history, turn) ==
    Put(histories, user_id,
        SubSeq(Append(history, turn), 1,
               IF Len(history) + 1 <= MAX_HISTORY_LENGTH THEN Len(history) + 1
               ELSE MAX_HISTORY_LENGTH))

\* lines 941-942: history.append(assistant turn);
\* self.conversation_histories[user_id] = history[-MAX_HISTORY_LENGTH:]
SaveHistory(histories, user_id, history, turn) ==
    Put(histories, user_id, LastN(Append(history, turn), MAX_HISTORY_LENGTH))

\* the handler up to `await self.ai.analyze_message(history)`
TalkStart(s, user_id, text, bound, once) ==
    /\ variant \in {"rest_agent", "fastapi"}
    /\ MayBegin(user_id, bound, once)
    /\ reqs[s] = Idle
    /\ \A t \in Slots : t < s => reqs[t] # Idle
    /\ conversation_histories' =
           StoredAfterAppend(conversation_histories, user_id, UserTurn(text))
    /\ reqs' = [reqs EXCEPT ![s] =
           TalkRequest(user_id, text,
                       LocalAfterAppend(conversation_histories, user_id, UserTurn(text)))]
    /\ full_turns' = [full_turns EXCEPT ![user_id] = Append(@, UserTurn(text))]
    /\ n_requests' = n_requests + 1
    /\ last' = Step("talk", "start", user_id, Absent, FALSE, Absent, Absent)
    /\ Begin(user_id)
    /\ UNCHANGED <<scanner_vars, executor_vars>>
    /\ UNCHANGED <<variant, hash_of, pending_actions, executor_calls, stored_count,
                   consumed_count>>

\* the handler from the classifier's return to `return response`
TalkFinish(s, llm, token) ==
    /\ reqs[s].kind = "talk"
    /\ LET req == reqs[s]
           action == analyze_message(variant, req.history[Len(req.history)].content.text, llm)
           decision == Route(variant, action, req.user_id, token)
           response == decision.response
       IN
       /\ pending_actions' =
              IF decision.store = NoStore THEN pending_actions
              ELSE Put(pending_actions, The(decision.store).id, The(decision.store).action)
       /\ stored_count' =
              IF decision.store = NoStore THEN stored_count
              ELSE Bump(stored_count, The(decision.store).id)
       /\ conversation_histories' =
              SaveHistory(conversation_histories, req.user_id, req.history,
                          Turn("assistant", response.message))
       /\ full_turns' = [full_turns EXCEPT ![req.user_id] =
              Append(@, Turn("assistant", response.message))]
       /\ last' = Step("talk", "done", req.user_id, response.action_id, FALSE,
                       Some(action), Some(response))
    /\ reqs' = [reqs EXCEPT ![s] = Idle]
    /\ UNCHANGED <<scanner_vars, executor_vars>>
    /\ UNCHANGED <<variant, hash_of, overlapped, executor_calls, consumed_count, n_requests>>

\* src/agent_special.py handle_user_message: the OpenAI call is a blocking call,
\* the handler has no suspension point before its reply and keeps no history
MsgAgentTalk(user_id, text, llm, bound) ==
    /\ variant = "msg_agent"
    /\ n_requests < bound
    /\ LET action == analyze_message(variant, text, llm)
           decision == Route(variant, action, user_id, hash_of[text])
           response == decision.response
       IN
       /\ pending_actions' =
              IF decision.store = NoStore THEN pending_actions
              ELSE Put(pending_actions, The(decision.store).id, The(decision.store).action)
       /\ stored_count' =
              IF decision.store = NoStore THEN stored_count
              ELSE Bump(stored_count, The(decision.store).id)
       /\ last' = Step("talk", "done", user_id, response.action_id, FALSE,
                       Some(action), Some(response))
    /\ n_requests' = n_requests + 1
    /\ UNCHANGED <<scanner_vars, executor_vars>>
    /\ UNCHANGED <<variant, hash_of, overlapped, conversation_histories, reqs, executor_calls,
                   consumed_count, full_turns>>

----------------------------------------------------------------------------
(* clear_conversation: DELETE /conversation/{user_id} (FastAPI) *)

\* a fault: clearing a conversation drops the user's pending actions with it
ClearDropsPending(pending, user_id) ==
    [id \in {x \in DOMAIN pending : x.user # user_id} |-> pending[id]]

\* clear_conversation does not name pending_actions
PendingAfterClear(pending, user_id) == pending

\* clear_conversation: `del conversation_histories[user_id]` when the key is
\* there; it has no await and answers with a message either way
ClearConversation(user_id, bound) ==
    /\ variant = "fastapi"
    /\ n_requests < bound
    /\ n_requests' = n_requests + 1
    /\ conversation_histories' =
           IF user_id \in DOMAIN conversation_histories
           THEN Drop(conversation_histories, user_id)
           ELSE conversation_histories
    /\ pending_actions' = PendingAfterClear(pending_actions, user_id)
    /\ last' = Step("clear", "done", user_id, Absent, FALSE, Absent, Absent)
    /\ UNCHANGED <<scanner_vars, executor_vars>>
    /\ UNCHANGED <<variant, hash_of, overlapped, reqs, executor_calls, stored_count,
                   consumed_count, full_turns>>

----------------------------------------------------------------------------
(* handle_confirmation: /confirm (REST agent, FastAPI), ConfirmationMessage *)

\* the CryptoFunctions method the confirmed branch calls first, "" when it
\* calls none (unsupported vault action or action type)
FirstCall(action) ==
    LET p == action.parameters IN
    IF action.action_type = "vault" THEN
        LET vault_action == GetOr(p.vault_action, "deposit") IN
        IF vault_action \in {"deposit", "withdraw", "info"} THEN "get_vault_info"
        ELSE IF vault_action = "redeem" THEN "vault_redeem"
        ELSE IF vault_action = "portfolio" THEN "get_user_portfolio"
        ELSE ""
    ELSE IF action.action_type = "stake" THEN "perform_complete_stake"
    ELSE IF action.action_type = "swap" THEN "perform_complete_swap"
    ELSE ""

\* what the handler waits for after FirstCall
FirstAwait(action) ==
    LET vault_action == GetOr(action.parameters.vault_action, "deposit") IN
    IF action.action_type = "vault" /\ vault_action = "deposit" THEN "deposit_info"
    ELSE IF action.action_type = "vault" /\ vault_action = "withdraw" THEN "withdraw_info"
    ELSE "result"

\* the methods that move funds
StateChangingOps ==
    {"perform_complete_stake", "perform_complete_swap", "vault_deposit",
     "vault_withdraw", "vault_redeem"}

\* fault: the branch on request.confirmed is lost, a cancellation executes too
DispatchedUnconditionally(v, calls, confirmed, action, action_id, user_id) ==
    IF v = "rest_agent" /\ FirstCall(action) # ""
    THEN Bump(calls, Call(FirstCall(action), action_id, user_id))
    ELSE calls

\* fault: the executor acts for the user the action id was issued to
DispatchedForTheCreator(v, calls, confirmed, action, action_id, user_id) ==
    IF confirmed /\ v = "rest_agent" /\ FirstCall(action) # ""
    THEN Bump(calls, Call(FirstCall(action), action_id, action_id.user))
    ELSE calls

\* `if request.confirmed:` (line 959): only the confirmed branch of the REST
\* agent reaches a CryptoFunctions call, the other deployments have no executor
Dispatched(v, calls, confirmed, action, action_id, user_id) ==
    IF confirmed /\ v = "rest_agent" /\ FirstCall(action) # ""
    THEN Bump(calls, Call(FirstCall(action), action_id, user_id))
    ELSE calls

\* "yes"/"no" (REST agent), "oui"/"non" (FastAPI)
ConfirmationText(v, confirmed) ==
    IF v = "rest_agent" THEN (IF confirmed THEN "yes" ELSE "no")
    ELSE (IF confirmed THEN "oui" ELSE "non")

\* fault: one list shared by all users instead of one per user_id
SaveConfirmationInSharedList(histories, user_id, confirmed_turn, reply_turn) ==
    [u \in DOMAIN histories \cup {user_id} |->
        LastN(Append(Append(HistoryOf(histories, u), confirmed_turn), reply_turn),
              MAX_HISTORY_LENGTH)]

\* lines 1112-1115: history = get(user_id, []); two appends;
\* self.conversation_histories[user_id] = history[-MAX_HISTORY_LENGTH:]
SaveConfirmation(histories, user_id, confirmed_turn, reply_turn) ==
    Put(histories, user_id,
        LastN(Append(Append(HistoryOf(histories, user_id), confirmed_turn), reply_turn),
              MAX_HISTORY_LENGTH))

\* fault: the entry is read and left in place (get instead of pop)
PopLeavesEntry(pending, action_id) == pending

\* pending_actions.pop(action_id, None)
Pop(pending, action_id) == Drop(pending, action_id)

\* fault: a confirmation of an absent id is answered like a cancellation
NotFoundReportedAsSuccess(v) ==
    ActionResponse(TRUE, Plain("cancelled", "action_cancelled"), Absent, FALSE, Absent)

NotFoundResponse(v) ==
    IF v = "fastapi" THEN HTTPException(404, Plain("not_found", "action_not_found_or_expired"))
    ELSE ActionResponse(FALSE, Plain("not_found",
             IF v = "rest_agent" THEN "action_not_found_or_expired"
             ELSE "no_pending_action"), Absent, FALSE, Absent)

\* fault: a cancellation is answered like a failed execution
CancelAnsweredAsFailure ==
    ActionResponse(FALSE, Plain("execution_failed", "failure"), Absent, FALSE, Absent)

\* the else branch of `if request.confirmed:` (line 1110; simple_api.py 151-154;
\* src/agent_special.py 314-318)
CancelledResponse == ActionResponse(TRUE, Plain("cancelled", "action_cancelled"),
                                    Absent, FALSE, Absent)

\* the found branches' common end: the two turns, the step, the counters
RecordConfirmation(user_id, action_id, confirmed, action, outcome, response) ==
    /\ conversation_histories' =
           IF variant = "msg_agent" THEN conversation_histories
           ELSE SaveConfirmation(conversation_histories, user_id,
                    UserTurn(ConfirmationText(variant, confirmed)),
                    Turn("assistant", response.message))
    /\ full_turns' =
           IF variant = "msg_agent" THEN full_turns
           ELSE [full_turns EXCEPT ![user_id] =
                    Append(Append(@, UserTurn(ConfirmationText(variant, confirmed))),
                           Turn("assistant", response.message))]
    /\ last' = [Step("confirm", "done", user_id, Some(action_id), confirmed,
                     Some(action), Some(response)) EXCEPT !.result = outcome]

\* fault: the history lines run before the "not found" return
HistoryRecordsTheAttempt(histories, user_id, confirmed) ==
    Put(histories, user_id,
        LastN(Append(HistoryOf(histories, user_id),
                     Turn("user", Plain("text", IF confirmed THEN "yes" ELSE "no"))),
              MAX_HISTORY_LENGTH))

\* the "not found" return (line 957) comes before the history lines (1112-1115):
\* the attempt is not recorded
HistoryAfterNotFound(histories, user_id, confirmed) == histories

\* action = pop(action_id, None); if not action: return / raise "not found"
ConfirmNotFound(user_id, action_id, confirmed, bound, once) ==
    /\ MayBegin(user_id, bound, once)
    /\ action_id \in ActionIds(variant)
    /\ action_id \notin DOMAIN pending_actions
    /\ n_requests' = n_requests + 1
    /\ last' = Step("confirm", "done", user_id, Some(action_id), confirmed, Absent,
                    Some(NotFoundResponse(variant)))
    /\ conversation_histories' =
           HistoryAfterNotFound(conversation_histories, user_id, confirmed)
    /\ UNCHANGED <<scanner_vars, executor_vars>>
    /\ UNCHANGED <<variant, hash_of, overlapped, pending_actions, reqs, executor_calls,
                   stored_count, consumed_count, full_turns>>

\* confirmed = false on a pending id
ConfirmCancel(user_id, action_id, bound, once) ==
    /\ MayBegin(user_id, bound, once)
    /\ action_id \in DOMAIN pending_actions
    /\ pending_actions' = Pop(pending_actions, action_id)
    /\ consumed_count' = Bump(consumed_count, action_id)
    /\ n_requests' = n_requests + 1
    /\ RecordConfirmation(user_id, action_id, FALSE, pending_actions[action_id],
                          Absent, CancelledResponse)
    /\ executor_calls' = Dispatched(variant, executor_calls, FALSE,
                                    pending_actions[action_id], action_id, user_id)
    /\ Begin(user_id)
    /\ UNCHANGED <<scanner_vars, executor_vars>>
    /\ UNCHANGED <<variant, hash_of, reqs, stored_count>>

\* FastAPI and message agent, confirmed = true: no executor, the function call
\* is returned ("Simulation d'execution reussie")
ConfirmSimulated(user_id, action_id, bound, once) ==
    /\ variant \in {"fastapi", "msg_agent"}
    /\ MayBegin(user_id, bound, once)
    /\ action_id \in DOMAIN pending_actions
    /\ pending_actions' = Pop(pending_actions, action_id)
    /\ consumed_count' = Bump(consumed_count, action_id)
    /\ n_requests' = n_requests + 1
    /\ LET action == pending_actions[action_id]
           call == generate_function_call(variant, action)
       IN RecordConfirmation(user_id, action_id, TRUE, action, Absent,
              ActionResponse(TRUE, Msg("confirmed", action.action_type, call.fn,
                                       call.parameters),
                             Some(call), FALSE, Absent))
    /\ Begin(user_id)
    /\ UNCHANGED <<scanner_vars, executor_vars>>
    /\ UNCHANGED <<variant, hash_of, reqs, executor_calls, stored_count>>

----------------------------------------------------------------------------
(* The REST agent's confirmed branch (lines 959-1107) and the executor *)

\* what a CryptoFunctions call can hand back: a result dict with success true
\* (its transaction hash, when it has one, goes into the message) or false, or
\* an exception (a vault method reading a bridge reply that is no dict); the
\* complete stake and swap catch every exception themselves
ExecutorOutcomes(op) ==
    {"success", "failure"}
        \cup (IF op \in {"perform_complete_stake", "perform_complete_swap"}
              THEN {} ELSE {"raised"})

\* fault: whatever the executor handed back is reported as a success
FoldResultHidesFailure(action, outcome) ==
    ActionResponse(TRUE, Plain("executed", outcome),
                   Some(generate_function_call("rest_agent", action)), FALSE, Absent)

\* lines 1082-1107: the result folded into the response
FoldResult(action, outcome) ==
    IF outcome = "success"
    THEN ActionResponse(TRUE, Plain("executed", outcome),
                        Some(generate_function_call("rest_agent", action)), FALSE, Absent)
    ELSE IF outcome = "raised"
    THEN ActionResponse(FALSE, Plain("technical_error", outcome), Absent, FALSE, Absent)
    ELSE ActionResponse(FALSE, Plain("execution_failed", outcome), Absent, FALSE, Absent)

\* confirmed = true on a pending id whose branch calls the executor: the pop,
\* then the handler up to its first await
ConfirmDispatch(s, user_id, action_id, bound, once) ==
    /\ variant = "rest_agent"
    /\ MayBegin(user_id, bound, once)
    /\ reqs[s] = Idle
    /\ \A t \in Slots : t < s => reqs[t] # Idle
    /\ action_id \in DOMAIN pending_actions
    /\ FirstCall(pending_actions[action_id]) # ""
    /\ LET action == pending_actions[action_id] IN
       /\ reqs' = [reqs EXCEPT ![s] =
              ConfirmRequest(user_id, action_id, action, FirstAwait(action))]
       /\ executor_calls' =
              Dispatched(variant, executor_calls, TRUE, action, action_id, user_id)
       /\ last' = Step("confirm", "dispatch", user_id, Some(action_id), TRUE,
                       Some(action), Absent)
    /\ pending_actions' = Pop(pending_actions, action_id)
    /\ consumed_count' = Bump(consumed_count, action_id)
    /\ n_requests' = n_requests + 1
    /\ Begin(user_id)
    /\ UNCHANGED <<scanner_vars, executor_vars>>
    /\ UNCHANGED <<variant, hash_of, conversation_histories, stored_count, full_turns>>

\* confirmed = true on a pending id whose branch calls nothing: lines 1043-1044
\* and 1078-1079, result = {"success": False, ...}
ConfirmUnsupported(user_id, action_id, bound, once) ==
    /\ variant = "rest_agent"
    /\ MayBegin(user_id, bound, once)
    /\ action_id \in DOMAIN pending_actions
    /\ FirstCall(pending_actions[action_id]) = ""
    /\ pending_actions' = Pop(pending_actions, action_id)
    /\ consumed_count' = Bump(consumed_count, action_id)
    /\ n_requests' = n_requests + 1
    /\ RecordConfirmation(user_id, action_id, TRUE, pending_actions[action_id],
                          Some("failure"), FoldResult(pending_actions[action_id], "failure"))
    /\ Begin(user_id)
    /\ UNCHANGED <<scanner_vars, executor_vars>>
    /\ UNCHANGED <<variant, hash_of, reqs, executor_calls, stored_count>>

\* get_vault_info returned to a deposit or a withdrawal (lines 972-1003, 1011-1028)
VaultInfoOutcomes == {"info_failed", "info_without_asset", "info_with_asset", "raised"}

\* fault: a successful fetch is enough, the asset address is not looked at
DepositAfterAnyInfo(info) == info \in {"info_without_asset", "info_with_asset"}

\* lines 974-993: the deposit goes on when the fetch succeeded and its
\* vault_info names the asset's address
DepositProceeds(info) == info = "info_with_asset"

\* the step after the fetch; when it calls the executor again, `result` of the
\* step keeps what the fetch answered
ConfirmVaultInfo(s, info) ==
    /\ reqs[s].kind = "confirm"
    /\ reqs[s].awaiting \in {"deposit_info", "withdraw_info"}
    /\ LET req == reqs[s]
           next_op == IF req.awaiting = "deposit_info" THEN "vault_deposit"
                      ELSE "vault_withdraw"
           proceeds == IF req.awaiting = "deposit_info" THEN DepositProceeds(info)
                       ELSE info # "raised"
       IN
       IF proceeds
       THEN /\ reqs' = [reqs EXCEPT ![s].awaiting = "result"]
            /\ executor_calls' =
                   Bump(executor_calls, Call(next_op, req.action_id, req.user_id))
            /\ last' = [Step("confirm", "dispatch", req.user_id, Some(req.action_id),
                             TRUE, Some(req.action), Absent)
                            EXCEPT !.result = Some(info)]
            /\ UNCHANGED <<conversation_histories, full_turns>>
       ELSE /\ reqs' = [reqs EXCEPT ![s] = Idle]
            /\ RecordConfirmation(req.user_id, req.action_id, TRUE, req.action,
                   Some(IF info = "raised" THEN "raised" ELSE "failure"),
                   FoldResult(req.action, IF info = "raised" THEN "raised" ELSE "failure"))
            /\ UNCHANGED executor_calls
    /\ UNCHANGED <<scanner_vars, executor_vars>>
    /\ UNCHANGED <<variant, hash_of, overlapped, pending_actions, stored_count,
                   consumed_count, n_requests>>

\* the op a suspended confirmation is waiting on
AwaitedOp(req) ==
    LET first == FirstCall(req.action) IN
    IF first # "get_vault_info" THEN first
    ELSE LET vault_action == GetOr(req.action.parameters.vault_action, "deposit") IN
         IF vault_action = "deposit" THEN "vault_deposit"
         ELSE IF vault_action = "withdraw" THEN "vault_withdraw"
         ELSE "get_vault_info"

\* the last executor call returned: fold, record the two turns, return
ConfirmFinish(s, outcome) ==
    /\ reqs[s].kind = "confirm"
    /\ reqs[s].awaiting = "result"
    /\ outcome \in ExecutorOutcomes(AwaitedOp(reqs[s]))
    /\ reqs' = [reqs EXCEPT ![s] = Idle]
    /\ RecordConfirmation(reqs[s].user_id, reqs[s].action_id, TRUE, reqs[s].action,
                          Some(outcome), FoldResult(reqs[s].action, outcome))
    /\ UNCHANGED <<scanner_vars, executor_vars>>
    /\ UNCHANGED <<variant, hash_of, overlapped, pending_actions, executor_calls, stored_count,
                   consumed_count, n_requests>>

----------------------------------------------------------------------------
(* The requests and classifier outputs the model draws from *)

StakeParams(amount, validator) ==
    [NoParams EXCEPT !.amount = amount, !.validator = validator]
SwapParams(amount, from_token, to_token) ==
    [NoParams EXCEPT !.amount = amount, !.from_token = from_token, !.to_token = to_token]
BalanceParams(wallet) == [NoParams EXCEPT !.wallet_address = wallet]
VaultParams(vault_action, vault_address, amount) ==
    [NoParams EXCEPT !.vault_action = vault_action, !.vault_address = vault_address,
                     !.amount = amount]

\* "stake 150 FLOW with blocto validator", confidence 0.95
StakeBlocto == LLMReply("stake", 95, StakeParams({150}, {"blocto"}), "reply")

\* classifier outputs: every action type, confidences on both sides of both
\* thresholds, parameters valid, missing and invalid, and the failures
LLMOutputs ==
    { LLMReply("conversation", 95, NoParams, "reply"),
      LLMReply("unknown", 20, NoParams, ""),
      LLMReply("transfer", 95, NoParams, "reply"),
      StakeBlocto,
      LLMReply("stake", 20, StakeParams({150}, {"blocto"}), "reply"),
      LLMReply("stake", 50, StakeParams({150}, {"blocto"}), "reply"),
      LLMReply("stake", 95, StakeParams({150}, {}), "reply"),
      LLMReply("stake", 95, StakeParams({}, {"blocto"}), "reply"),
      LLMReply("stake", 95, StakeParams({0}, {"blocto"}), "reply"),
      LLMReply("stake", 95, StakeParams({-5}, {"blocto"}), "reply"),
      LLMReply("swap", 95, SwapParams({20}, {"usdc"}, {"flow"}), "reply"),
      LLMReply("swap", 95, SwapParams({20}, {"flow"}, {"flow"}), "reply"),
      LLMReply("swap", 70, SwapParams({0}, {"flow"}, {"flow"}), "reply"),
      LLMReply("balance", 95, BalanceParams({Address(TRUE, 18)}), "reply"),
      LLMReply("balance", 50, BalanceParams({Address(TRUE, 18)}), "reply"),
      LLMReply("balance", 95, BalanceParams({Address(FALSE, 18)}), "reply"),
      LLMReply("vault", 95, VaultParams({"deposit"}, {Address(TRUE, 42)}, {100}), "reply"),
      LLMReply("vault", 95, VaultParams({"withdraw"}, {Address(TRUE, 42)}, {50}), "reply"),
      LLMReply("vault", 20, VaultParams({"redeem"}, {Address(TRUE, 42)}, {}), "reply"),
      LLMReply("vault", 95, VaultParams({"close"}, {}, {}), "reply") }
    \cup LLMFailures

\* the long-conversation runs: small talk and one action that is confirmed
HistoryLLMOutputs ==
    { LLMReply("conversation", 95, NoParams, "reply"), StakeBlocto }

\* the protocol runs: one intent per route through the confirmation handler
ProtocolLLMOutputs ==
    { LLMReply("conversation", 95, NoParams, "reply"),
      StakeBlocto,
      LLMReply("vault", 95, VaultParams({"deposit"}, {Address(TRUE, 42)}, {100}), "reply") }

----------------------------------------------------------------------------
(* src/scan_vault.py: the ERC-4626 vault scanner, a script of its own *)

\* critical_methods and erc20_methods, in the order they are probed
critical_methods == <<"asset", "totalAssets", "convertToAssets", "convertToShares">>
erc20_methods == <<"name", "symbol", "decimals", "totalSupply">>

Range(seq) == {seq[i] : i \in DOMAIN seq}
Methods == Range(critical_methods) \cup Range(erc20_methods)

\* the three calls made on the underlying asset's contract, in order
asset_methods == <<"name", "symbol", "decimals">>

\* dict[k] = v for each key of `more`
Update(d, more) ==
    [k \in DOMAIN d \cup DOMAIN more |-> IF k \in DOMAIN more THEN more[k] ELSE d[k]]

\* a fault: a contract is rejected as soon as one probed method raises
CheckRequiresEveryMethod(usable, answers) ==
    IF ~usable
    THEN [is_valid |-> FALSE, vault_info |-> << >>, failed_methods |-> <<"all">>]
    ELSE
        LET Raised(m) == ~Has(answers[m])
            vault_info == [m \in {x \in Methods : Has(answers[x])} |-> The(answers[m])]
        IN [is_valid |-> \A m \in Methods : m \in DOMAIN vault_info,
            vault_info |-> vault_info,
            failed_methods |-> SelectSeq(critical_methods, Raised)
                                   \o SelectSeq(erc20_methods, Raised)]

\* check_erc4626_methods: `answers` is what each call of the contract gives,
\* Some(result) or Absent when the call raises; `usable` is false when
\* to_checksum_address / eth.contract raise before any call (line 192)
check_erc4626_methods(usable, answers) ==
    IF ~usable
    THEN [is_valid |-> FALSE, vault_info |-> << >>, failed_methods |-> <<"all">>]
    ELSE
        LET Raised(m) == ~Has(answers[m])
            vault_info == [m \in {x \in Methods : Has(answers[x])} |-> The(answers[m])]
        IN [is_valid |-> "asset" \in DOMAIN vault_info /\ "totalAssets" \in DOMAIN vault_info,
            vault_info |-> vault_info,
            failed_methods |-> SelectSeq(critical_methods, Raised)
                                   \o SelectSeq(erc20_methods, Raised)]

\* total_assets / total_supply: Python's true division, kept as the exact ratio
Ratio(num, den) == [num |-> num, den |-> den]
\* w3.from_wei(amount, 'ether'): the amount scaled down by 10^18
FromWei(amount) == [wei |-> amount, unit |-> "ether"]

\* a fault: the price is the supply per asset
SharePriceInverted(vault_info) ==
    IF /\ "totalAssets" \in DOMAIN vault_info
       /\ "totalSupply" \in DOMAIN vault_info
       /\ vault_info["totalSupply"] > 0
    THEN Update(vault_info,
             [share_price |-> Ratio(vault_info["totalSupply"], vault_info["totalAssets"]),
              total_assets_formatted |-> FromWei(vault_info["totalAssets"]),
              total_supply_formatted |-> FromWei(vault_info["totalSupply"])])
    ELSE vault_info

\* get_additional_vault_info, lines 204-213
SharePrice(vault_info) ==
    IF /\ "totalAssets" \in DOMAIN vault_info
       /\ "totalSupply" \in DOMAIN vault_info
       /\ vault_info["totalSupply"] > 0
    THEN Update(vault_info,
             [share_price |-> Ratio(vault_info["totalAssets"], vault_info["totalSupply"]),
              total_assets_formatted |-> FromWei(vault_info["totalAssets"]),
              total_supply_formatted |-> FromWei(vault_info["totalSupply"])])
    ELSE vault_info

\* a fault: each answer of the asset's contract is recorded as it comes, up to
\* the first call that raises
AssetInfoKeepsPartial(info, asset_answers) ==
    IF "asset" \notin DOMAIN info THEN info
    ELSE LET key == [name |-> "asset_name", symbol |-> "asset_symbol",
                     decimals |-> "asset_decimals"]
             reached == {i \in DOMAIN asset_methods :
                            \A j \in 1..i : Has(asset_answers[asset_methods[j]])}
         IN Update(info, [k \in {key[asset_methods[i]] : i \in reached} |->
                             LET m == CHOOSE m \in Range(asset_methods) : key[m] = k
                             IN The(asset_answers[m])])

\* get_additional_vault_info, lines 215-233: the three calls on the asset's
\* contract; an exception of any of them skips the three assignments
AssetInfo(info, asset_answers) ==
    IF "asset" \in DOMAIN info /\ \A m \in Range(asset_methods) : Has(asset_answers[m])
    THEN Update(info,
             [asset_name |-> The(asset_answers["name"]),
              asset_symbol |-> The(asset_answers["symbol"]),
              asset_decimals |-> The(asset_answers["decimals"])])
    ELSE info

get_additional_vault_info(vault_info, asset_answers) ==
    AssetInfo(SharePrice(vault_info), asset_answers)

\* a value of the report: info.get(key, 'N/A')
NotAvailable == [placeholder |-> "N/A"]
Present(x) == [value |-> x]
GetOrNA(info, key) == IF key \in DOMAIN info THEN Present(info[key]) ELSE NotAvailable
\* str(info.get(key, 'N/A'))
StrOrNA(info, key) ==
    IF key \in DOMAIN info THEN Present([str |-> info[key]]) ELSE NotAvailable

\* display_results, lines 301-315: one entry of results_data["vaults"]
vault_data(address, info) ==
    [address |-> address,
     name |-> GetOrNA(info, "name"),
     symbol |-> GetOrNA(info, "symbol"),
     asset |-> GetOrNA(info, "asset"),
     asset_name |-> GetOrNA(info, "asset_name"),
     asset_symbol |-> GetOrNA(info, "asset_symbol"),
     asset_decimals |-> GetOrNA(info, "asset_decimals"),
     total_assets |-> StrOrNA(info, "totalAssets"),
     total_supply |-> StrOrNA(info, "totalSupply"),
     total_assets_formatted |-> GetOrNA(info, "total_assets_formatted"),
     total_supply_formatted |-> GetOrNA(info, "total_supply_formatted"),
     share_price |-> GetOrNA(info, "share_price"),
     decimals |-> GetOrNA(info, "decimals")]

\* display_results, lines 278-316; vaults is the dict in insertion order
display_results(vaults) ==
    [total_vaults_found |-> Len(vaults),
     vaults |-> [i \in 1..Len(vaults) |-> vault_data(vaults[i].address, vaults[i].info)]]

\* EVENT_TOPICS, in the order the dict is iterated; a topic hash is named by
\* its event
event_names == <<"Deposit", "Withdraw", "Transfer", "SimpleDeposit", "SimpleWithdraw">>

\* a log entry: its block, the emitting contract, topics[0] and the indexed
\* arguments after it
Log(block, address, topics) == [block |-> block, address |-> address, topics |-> topics]

\* eth.get_logs({"fromBlock", "toBlock", "topics": [topic]})
FilteredQuery(logs, start_block, end_block, topic) ==
    {l \in logs : /\ start_block <= l.block /\ l.block <= end_block
                  /\ Len(l.topics) > 0 /\ l.topics[1] = topic}

\* a fault: the logs of the unfiltered query are kept as they come
FallbackKeepsAllLogs(logs, start_block, end_block, topic) ==
    {l \in logs : start_block <= l.block /\ l.block <= end_block}

\* eth.get_logs({"fromBlock", "toBlock"}), then lines 118-120
FallbackQuery(logs, start_block, end_block, topic) ==
    LET all_logs_chunk == {l \in logs : start_block <= l.block /\ l.block <= end_block}
    IN {l \in all_logs_chunk : Len(l.topics) > 0 /\ l.topics[1] = topic}

\* a fault: a chunk ends on the block the next one starts with
EndBlockShared(start_block, to_block) ==
    IF start_block + CHUNK_SIZE < to_block THEN start_block + CHUNK_SIZE
    ELSE to_block

\* end_block = min(start_block + chunk_size - 1, to_block)
EndBlock(start_block, to_block) ==
    IF start_block + CHUNK_SIZE - 1 < to_block THEN start_block + CHUNK_SIZE - 1
    ELSE to_block

\* how a (chunk, topic) query went: the filtered query answered; it raised and
\* the unfiltered one answered; both raised
QueryOutcomes == {"filtered", "fallback", "nothing"}

QueryResult(logs, start_block, end_block, topic, outcome) ==
    IF outcome = "filtered" THEN FilteredQuery(logs, start_block, end_block, topic)
    ELSE IF outcome = "fallback" THEN FallbackQuery(logs, start_block, end_block, topic)
    ELSE {}

\* a fault: only the logs that carry two indexed arguments give a candidate
ExtractOnlyIndexedLogs(all_logs) ==
    {l.address : l \in {x \in UNION {all_logs[i].logs : i \in DOMAIN all_logs} :
                            Len(x.topics) >= 3}}

\* extract_contract_addresses: log['address'] of every log (the Transfer branch
\* adds the same address again)
extract_contract_addresses(all_logs) ==
    {l.address : l \in UNION {all_logs[i].logs : i \in DOMAIN all_logs}}

\* main() has built the scanner and is about to call scan_for_vaults
ScanInit(chains) ==
    /\ variant = "scan_vault"
    /\ hash_of = [t \in Texts |-> "h0"]
    /\ conversation_histories = << >>
    /\ pending_actions = << >>
    /\ reqs = [s \in Slots |-> Idle]
    /\ executor_calls = << >>
    /\ stored_count = << >>
    /\ consumed_count = << >>
    /\ full_turns = [u \in Users |-> << >>]
    /\ overlapped = {}
    /\ n_requests = 0
    /\ last = Step("none", "none", "", Absent, FALSE, Absent, Absent)
    /\ ScannerConstructed
    /\ chain \in chains
    /\ scan = [pc |-> "start"]
    /\ probes = << >>
    /\ results_data = Absent
    /\ crypto_call = NotCalled

\* scan_for_vaults, lines 242-243: current_block = self.w3.eth.block_number,
\* which no try surrounds; from_block = max(0, current_block - blocks_to_scan)
ScanStart(provider_ok) ==
    /\ scan.pc = "start"
    /\ scan' =
           IF ~provider_ok THEN [pc |-> "raised"]
           ELSE LET from_block == IF chain.block_number - BLOCKS_TO_SCAN > 0
                                  THEN chain.block_number - BLOCKS_TO_SCAN ELSE 0
                IN [pc |-> "get_logs", from_block |-> from_block,
                    to_block |-> chain.block_number, start_block |-> from_block,
                    topic |-> 1, all_logs |-> << >>, outcome |-> "none",
                    missed |-> FALSE, contract_addresses |-> {},
                    todo |-> {}, valid_vaults |-> << >>]
    /\ UNCHANGED <<variant, engine_vars, executor_vars, chain, found_contracts, verified_vaults,
                   failed_contracts, probes, results_data>>

\* a fault: a query whose two attempts raise ends the scan
NextQueryRaises(queried) ==
    IF queried.outcome = "nothing" THEN [pc |-> "raised"]
    ELSE IF queried.topic < Len(event_names)
    THEN [queried EXCEPT !.topic = @ + 1]
    ELSE IF queried.start_block + CHUNK_SIZE <= queried.to_block
    THEN [queried EXCEPT !.topic = 1, !.start_block = @ + CHUNK_SIZE]
    ELSE [queried EXCEPT !.pc = "extract"]

\* get_logs_in_chunks, lines 90, 95 and 127-132: whatever the query's outcome,
\* the next topic of the chunk, else the next chunk, else return all_logs
NextQuery(queried) ==
    IF queried.topic < Len(event_names)
    THEN [queried EXCEPT !.topic = @ + 1]
    ELSE IF queried.start_block + CHUNK_SIZE <= queried.to_block
    THEN [queried EXCEPT !.topic = 1, !.start_block = @ + CHUNK_SIZE]
    ELSE [queried EXCEPT !.pc = "extract"]

\* get_logs_in_chunks: one pass of the inner loop, lines 95-127, and the step
\* to the next topic or chunk; `outcome` keeps how this query went and `missed`
\* whether a query that got no answer had logs to return
GetLogs(outcome) ==
    /\ scan.pc = "get_logs"
    /\ LET end_block == EndBlock(scan.start_block, scan.to_block)
           got == [start_block |-> scan.start_block, end_block |-> end_block,
                   topic |-> event_names[scan.topic],
                   logs |-> QueryResult(chain.logs, scan.start_block, end_block,
                                        event_names[scan.topic], outcome)]
           all_logs == Append(scan.all_logs, got)
           missed == \/ scan.missed
                     \/ /\ outcome = "nothing"
                        /\ FilteredQuery(chain.logs, scan.start_block, end_block,
                                         event_names[scan.topic]) # {}
           queried == [scan EXCEPT !.all_logs = all_logs, !.outcome = outcome,
                                   !.missed = missed]
       IN scan' = NextQuery(queried)
    /\ UNCHANGED <<variant, engine_vars, executor_vars, chain, found_contracts, verified_vaults,
                   failed_contracts, probes, results_data>>

\* scan_for_vaults, lines 250-252: the candidates of the logs returned, after
\* which the logs are not used again
ExtractAddresses ==
    /\ scan.pc = "extract"
    /\ LET contract_addresses == extract_contract_addresses(scan.all_logs) IN
       /\ scan' = [scan EXCEPT !.pc = "probing", !.all_logs = << >>,
                               !.outcome = "none",
                               !.contract_addresses = contract_addresses,
                               !.todo = contract_addresses]
       /\ found_contracts' = found_contracts \cup contract_addresses
    /\ UNCHANGED <<variant, engine_vars, executor_vars, chain, verified_vaults, failed_contracts,
                   probes, results_data>>

\* scan_for_vaults, lines 257-268: one pass of the loop over the candidate set
\* (a Python set: any order); `probes` keeps what the calls made answered
ProbeContract(address, usable, answers, asset_answers) ==
    /\ scan.pc = "probing"
    /\ address \in scan.todo
    /\ LET checked == check_erc4626_methods(usable, answers) IN
       IF checked.is_valid
       THEN LET enhanced_info ==
                    get_additional_vault_info(checked.vault_info, asset_answers)
            IN
            /\ scan' = [scan EXCEPT !.todo = @ \ {address},
                           !.valid_vaults =
                               Append(@, [address |-> address, info |-> enhanced_info])]
            /\ verified_vaults' = Put(verified_vaults, address, enhanced_info)
            /\ probes' = Put(probes, address,
                             [usable |-> usable, answers |-> Some(answers),
                              asset_answers |-> Some(asset_answers)])
            /\ UNCHANGED failed_contracts
       ELSE /\ scan' = [scan EXCEPT !.todo = @ \ {address}]
            /\ failed_contracts' = failed_contracts \cup {address}
            /\ probes' = Put(probes, address,
                             [usable |-> usable,
                              answers |-> IF usable THEN Some(answers) ELSE Absent,
                              asset_answers |-> Absent])
            /\ UNCHANGED verified_vaults
    /\ UNCHANGED <<variant, engine_vars, executor_vars, chain, found_contracts, results_data>>

\* scan_for_vaults returns valid_vaults and main() calls display_results;
\* `saved` is whether the report file could be written (lines 322-328)
DisplayResults(saved) ==
    /\ scan.pc = "probing"
    /\ scan.todo = {}
    /\ scan' = [scan EXCEPT !.pc = "done"]
    /\ results_data' =
           Some([report |-> display_results(scan.valid_vaults), saved |-> saved])
    /\ UNCHANGED <<variant, engine_vars, executor_vars, chain, found_contracts, verified_vaults,
                   failed_contracts, probes>>

\* what a contract's calls answer: the methods in `failed` raise
ContractAnswers(failed, total_assets, total_supply) ==
    [m \in Methods |->
        IF m \in failed THEN Absent
        ELSE IF m = "totalAssets" THEN Some(total_assets)
        ELSE IF m = "totalSupply" THEN Some(total_supply)
        ELSE IF m = "asset" THEN Some("asset_address")
        ELSE IF m = "decimals" THEN Some(18)
        ELSE IF m \in {"convertToAssets", "convertToShares"} THEN Some(1)
        ELSE Some(m)]

\* the sets of methods that raise
FailurePatterns == {f \in SUBSET Methods : Cardinality(f) <= MaxFailedMethods}

\* amounts are in units of 10^18 wei
AnswerSets ==
    {ContractAnswers(failed, total_assets, total_supply) :
         failed \in FailurePatterns, total_assets \in {0, 1000}, total_supply \in {0, 500}}

FailingAnswerSets == {ContractAnswers(failed, 1000, 500) : failed \in FailurePatterns}

AssetAnswerSets ==
    {[m \in Range(asset_methods) |-> IF m \in failed THEN Absent ELSE Some(m)] :
         failed \in {{}, {"symbol"}}}

\* what the chain holds: a deposit and a withdrawal of two contracts in the
\* first and the last chunk; a deposit and a mint of one contract; nothing, in
\* a range that ends on a chunk of one block and in one of two full chunks.
\* Contract a3 emits an event no topic matches and one without topics
Chains ==
    LET DepositLog == Log(6000, "a1", <<"Deposit", "sender", "owner">>)
        MintLog == Log(8500, "a1", <<"Transfer", "zero", "owner">>)
        WithdrawLog == Log(25000, "a2", <<"SimpleWithdraw", "owner">>)
        ApprovalLog == Log(16000, "a3", <<"Approval", "owner", "spender">>)
        AnonymousLog == Log(8000, "a3", << >>)
    IN { [block_number |-> 25000,
          logs |-> {DepositLog, WithdrawLog, ApprovalLog, AnonymousLog}],
         [block_number |-> 9000, logs |-> {DepositLog, MintLog, AnonymousLog}],
         [block_number |-> 25000, logs |-> {}],
         [block_number |-> 19999, logs |-> {}] }

----------------------------------------------------------------------------
(* CryptoFunctions.perform_complete_swap and perform_complete_stake: the    *)
(* calls they await, one step per await                                     *)

\* a text: an optional "MOCK_" prefix and then a numeral, or no numeral
Text(prefix, number) == [prefix |-> prefix, number |-> number]
\* float(text): Some(number), or Absent when it raises ValueError.  The amounts
\* of the model are whole tokens, which a float holds exactly
Float(text) == IF text.prefix = "" THEN text.number ELSE Absent

\* str.upper() of a token symbol
Upper(symbol) ==
    IF symbol \in {"flow", "Flow", "FLOW"} THEN "FLOW"
    ELSE IF symbol \in {"usdc", "USDC"} THEN "USDC"
    ELSE IF symbol \in {"xyz", "XYZ"} THEN "XYZ"
    ELSE symbol

\* the failure dict a wrapped API call returns when the reply lacks what it
\* was asked for or the request raises
ApiFailure(what) == [success |-> FALSE, error |-> what]

\* lines 477-484: the loop over tokens keeps the last token of each symbol
FindToken(tokens, symbol) ==
    LET hits == {i \in DOMAIN tokens : Upper(tokens[i].symbol) = Upper(symbol)}
    IN IF hits = {} THEN Absent
       ELSE Some(tokens[CHOOSE i \in hits : \A j \in hits : j <= i])

\* a fault: a balance that carries the mock prefix is not compared
CheckBalanceSkipsMock(balances_result, token_in, amount_in) ==
    IF ~balances_result.success THEN "unchecked"
    ELSE LET found == IF token_in.address \in DOMAIN balances_result.balances
                      THEN balances_result.balances[token_in.address] ELSE Text("", Some(0))
         IN IF found.prefix = "MOCK_" THEN "enough"
            ELSE IF ~Has(Float(found)) \/ ~Has(Float(amount_in)) THEN "raised"
            ELSE IF The(Float(found)) < The(Float(amount_in)) THEN "insufficient"
            ELSE "enough"

\* lines 502-513: only a retrieved balance is compared; a missing entry counts
\* as "0", the mock prefix is removed, and float() of a text that is no
\* number raises
CheckBalance(balances_result, token_in, amount_in) ==
    IF ~balances_result.success THEN "unchecked"
    ELSE LET found == IF token_in.address \in DOMAIN balances_result.balances
                      THEN balances_result.balances[token_in.address] ELSE Text("", Some(0))
             user_balance == IF found.prefix = "MOCK_" THEN Text("", found.number)
                             ELSE found
         IN IF ~Has(Float(user_balance)) \/ ~Has(Float(amount_in)) THEN "raised"
            ELSE IF The(Float(user_balance)) < The(Float(amount_in)) THEN "insufficient"
            ELSE "enough"

\* the call returns `result`
Returned(call, result) == [call EXCEPT !.pc = "returned", !.result = Some(result)]
\* the call awaits the next wrapped API call
Awaits(call, op) == [call EXCEPT !.pc = op, !.calls = Append(@, op)]

\* perform_complete_swap is called and awaits get_available_tokens (line 470)
PerformCompleteSwap(token_in_symbol, token_out_symbol, amount_in) ==
    /\ crypto_call = NotCalled
    /\ crypto_call' =
           [pc |-> "get_available_tokens", fn |-> "perform_complete_swap",
            token_in_symbol |-> token_in_symbol,
            token_out_symbol |-> token_out_symbol, amount_in |-> amount_in,
            tokens_result |-> Absent, balances_result |-> Absent,
            quote_result |-> Absent, execute_result |-> Absent,
            calls |-> <<"get_available_tokens">>, result |-> Absent]
    /\ UNCHANGED <<variant, engine_vars, scanner_vars>>

\* lines 471-501: the token list came back
SwapTokens(tokens_result) ==
    /\ crypto_call.pc = "get_available_tokens"
    /\ LET call == [crypto_call EXCEPT !.tokens_result = Some(tokens_result)] IN
       crypto_call' =
           IF ~tokens_result.success THEN Returned(call, tokens_result)
           ELSE IF ~Has(FindToken(tokens_result.tokens, call.token_in_symbol))
           THEN Returned(call, ApiFailure("token_in_not_found"))
           ELSE IF ~Has(FindToken(tokens_result.tokens, call.token_out_symbol))
           THEN Returned(call, ApiFailure("token_out_not_found"))
           ELSE Awaits(call, "get_user_balances")
    /\ UNCHANGED <<variant, engine_vars, scanner_vars>>

\* lines 502-516: the balances came back
SwapBalances(balances_result) ==
    /\ crypto_call.pc = "get_user_balances"
    /\ LET call == [crypto_call EXCEPT !.balances_result = Some(balances_result)]
           token_in == The(FindToken(The(call.tokens_result).tokens,
                                     call.token_in_symbol))
           checked == CheckBalance(balances_result, token_in, call.amount_in)
       IN crypto_call' =
              IF checked = "raised" THEN Returned(call, ApiFailure("exception"))
              ELSE IF checked = "insufficient"
              THEN Returned(call, ApiFailure("insufficient_balance"))
              ELSE Awaits(call, "get_swap_quote")
    /\ UNCHANGED <<variant, engine_vars, scanner_vars>>

\* lines 517-523: the quote came back; quote["id"] raises KeyError when the
\* quote has no id
SwapQuote(quote_result) ==
    /\ crypto_call.pc = "get_swap_quote"
    /\ LET call == [crypto_call EXCEPT !.quote_result = Some(quote_result)] IN
       crypto_call' =
           IF ~quote_result.success THEN Returned(call, quote_result)
           ELSE IF ~Has(quote_result.quote.id)
           THEN Returned(call, ApiFailure("exception"))
           ELSE Awaits(call, "execute_swap")
    /\ UNCHANGED <<variant, engine_vars, scanner_vars>>

\* lines 525-535: execute_swap came back
SwapExecuted(execute_result) ==
    /\ crypto_call.pc = "execute_swap"
    /\ LET call == [crypto_call EXCEPT !.execute_result = Some(execute_result)] IN
       crypto_call' =
           IF execute_result.success
           THEN Returned(call, [success |-> TRUE,
                                transaction_id |-> execute_result.transaction_id])
           ELSE Returned(call, execute_result)
    /\ UNCHANGED <<variant, engine_vars, scanner_vars>>

\* a fault: the stake goes on whatever the setup answered
SetupNeverStops(setup_result) == FALSE

\* lines 730-735: a failed setup ends the call
SetupStops(setup_result) == ~setup_result.success

\* line 727: not status_result["success"] or not status_result.get("active_stakes")
NeedsSetup(status_result) ==
    ~status_result.success \/ status_result.active_stakes = << >>

\* validator_map, lines 754-758
validator_map ==
    [blocto |-> "benjamin_node_id", benjamin |-> "benjamin_node_id",
     flow |-> "flow_foundation_node_id"]

\* lines 741-759: the node and the delegator execute_stake is given; an absent
\* value is None
StakeTarget(delegator_result, validator) ==
    LET use_delegator == delegator_result.success /\ delegator_result.delegator_info # << >>
        delegator_info == delegator_result.delegator_info[1]
        node_id == IF use_delegator THEN Some(delegator_info.nodeID) ELSE Absent
        delegator_id == IF use_delegator THEN Some(delegator_info.id) ELSE Absent
    IN [node_id |-> IF Has(validator) /\ The(validator) # "default"
                    THEN (IF The(validator) \in DOMAIN validator_map
                          THEN Some(validator_map[The(validator)]) ELSE node_id)
                    ELSE node_id,
        delegator_id |-> delegator_id]

\* perform_complete_stake is called and awaits get_staking_status (line 724)
PerformCompleteStake(amount, validator) ==
    /\ crypto_call = NotCalled
    /\ crypto_call' =
           [pc |-> "get_staking_status", fn |-> "perform_complete_stake",
            amount |-> amount, validator |-> validator,
            status_result |-> Absent, setup_result |-> Absent,
            delegator_result |-> Absent, target |-> Absent,
            calls |-> <<"get_staking_status">>, result |-> Absent]
    /\ UNCHANGED <<variant, engine_vars, scanner_vars>>

\* lines 727-729 and 738: the status came back
StakeStatus(status_result) ==
    /\ crypto_call.pc = "get_staking_status"
    /\ LET call == [crypto_call EXCEPT !.status_result = Some(status_result)] IN
       crypto_call' =
           IF NeedsSetup(status_result) THEN Awaits(call, "setup_staking_collection")
           ELSE Awaits(call, "get_delegator_info")
    /\ UNCHANGED <<variant, engine_vars, scanner_vars>>

\* lines 730-738: the setup came back
StakeSetup(setup_result) ==
    /\ crypto_call.pc = "setup_staking_collection"
    /\ LET call == [crypto_call EXCEPT !.setup_result = Some(setup_result)] IN
       crypto_call' =
           IF SetupStops(setup_result) THEN Returned(call, ApiFailure("setup_failed"))
           ELSE Awaits(call, "get_delegator_info")
    /\ UNCHANGED <<variant, engine_vars, scanner_vars>>

\* lines 741-761: the delegator info came back and execute_stake is awaited
StakeDelegator(delegator_result) ==
    /\ crypto_call.pc = "get_delegator_info"
    /\ LET call == [crypto_call EXCEPT !.delegator_result = Some(delegator_result)] IN
       crypto_call' =
           [Awaits(call, "execute_stake") EXCEPT
               !.target = Some(StakeTarget(delegator_result, call.validator))]
    /\ UNCHANGED <<variant, engine_vars, scanner_vars>>

\* lines 763-774: execute_stake came back
StakeExecuted(stake_result) ==
    /\ crypto_call.pc = "execute_stake"
    /\ crypto_call' =
           IF stake_result.success
           THEN Returned(crypto_call, [success |-> TRUE,
                                       transaction_id |-> stake_result.transaction_id])
           ELSE Returned(crypto_call, stake_result)
    /\ UNCHANGED <<variant, engine_vars, scanner_vars>>

----------------------------------------------------------------------------
(* Specifications *)

Talk(users, texts, llms, tokens, bound, once) ==
    \/ \E s \in Slots, u \in users, text \in texts : TalkStart(s, u, text, bound, once)
    \/ \E s \in Slots, llm \in llms, token \in tokens : TalkFinish(s, llm, token)

\* the ids that name one of `users`, of any deployment (a confirmation takes
\* its id from those of the deployment it runs in)
IdsOf(users) ==
    {id \in ActionIds("rest_agent") \cup ActionIds("msg_agent") : id.user \in users}

Confirm(users, ids, bound, once) ==
    \/ \E u \in users, id \in ids, c \in BOOLEAN : ConfirmNotFound(u, id, c, bound, once)
    \/ \E u \in users, id \in ids : ConfirmCancel(u, id, bound, once)
    \/ \E u \in users, id \in ids : ConfirmSimulated(u, id, bound, once)
    \/ \E s \in Slots, u \in users, id \in ids : ConfirmDispatch(s, u, id, bound, once)
    \/ \E s \in Slots, outcome \in {"success", "failure", "raised"} :
           ConfirmFinish(s, outcome)

\* the protocol: every deployment, two users, requests that overlap
Next ==
    \/ Talk(Users, {"ta"}, ProtocolLLMOutputs, RandomTokens, MaxRequests, FALSE)
    \/ \E u \in Users, text \in Texts, llm \in ProtocolLLMOutputs :
           MsgAgentTalk(u, text, llm, MaxRequests)
    \/ Confirm(Users, IdsOf(Users), MaxRequests, FALSE)
    \/ \E s \in Slots, info \in VaultInfoOutcomes : ConfirmVaultInfo(s, info)

Spec == Init /\ [][Next]_vars

\* every classifier output, one user, a message and its confirmation
NextInputs ==
    \/ Talk({"u1"}, {"ta"}, LLMOutputs, RandomTokens, MaxInputRequests, FALSE)
    \/ \E llm \in LLMOutputs : MsgAgentTalk("u1", "ta", llm, MaxInputRequests)
    \/ Confirm({"u1"}, IdsOf({"u1"}), MaxInputRequests, FALSE)
    \/ \E id \in IdsOf({"u1"}) : ConfirmUnsupported("u1", id, MaxInputRequests, FALSE)
    \/ ClearConversation("u1", MaxInputRequests)
    \/ \E s \in Slots, info \in VaultInfoOutcomes : ConfirmVaultInfo(s, info)

SpecInputs == Init /\ [][NextInputs]_vars

\* a long conversation of one user with the deployments that keep a history;
\* their requests overlap once
NextHistory ==
    \/ Talk({"u1"}, {"ta"}, HistoryLLMOutputs, {"r0"}, MaxHistoryRequests, TRUE)
    \/ Confirm({"u1"}, {ActionId("u1", "", "r0")}, MaxHistoryRequests, TRUE)

SpecHistory == InitWith({"rest_agent", "fastapi"}) /\ [][NextHistory]_vars

\* one run of the scanner script over one of the chains
NextScan ==
    \/ \E provider_ok \in BOOLEAN : ScanStart(provider_ok)
    \/ \E outcome \in QueryOutcomes : GetLogs(outcome)
    \/ ExtractAddresses
    \/ \E address \in {"a1", "a2", "a3"}, usable \in BOOLEAN,
          answers \in AnswerSets, asset_answers \in AssetAnswerSets :
           ProbeContract(address, usable, answers, asset_answers)
    \/ \E saved \in BOOLEAN : DisplayResults(saved)

SpecScan == ScanInit(Chains) /\ [][NextScan]_vars

\* the same run with the amounts fixed, every failure pattern kept; the script
\* runs on: a step that can be taken is taken
NextScanLive ==
    \/ \E provider_ok \in BOOLEAN : ScanStart(provider_ok)
    \/ \E outcome \in QueryOutcomes : GetLogs(outcome)
    \/ ExtractAddresses
    \/ \E address \in {"a1", "a2", "a3"}, usable \in BOOLEAN,
          answers \in FailingAnswerSets, asset_answers \in AssetAnswerSets :
           ProbeContract(address, usable, answers, asset_answers)
    \/ \E saved \in BOOLEAN : DisplayResults(saved)

SpecScanLive == ScanInit(Chains) /\ [][NextScanLive]_vars /\ WF_vars(NextScanLive)

\* what the frontend's API at localhost:3000 may answer to the wrapped call
\* `op`, as the dict the wrapper returns: a failure (the reply lacks the key
\* asked for, or the request raised), or the data.  Balances: enough, too
\* little, mock data, no entry of the token, a text that is no number
ApiAnswers(op) ==
    IF op = "get_available_tokens" THEN
        { ApiFailure("no_tokens"),
          [success |-> TRUE,
           tokens |-> <<[symbol |-> "FLOW", address |-> "0xflow"],
                        [symbol |-> "USDC", address |-> "0xusdc"]>>],
          [success |-> TRUE, tokens |-> <<[symbol |-> "FLOW", address |-> "0xflow"]>>] }
    ELSE IF op = "get_user_balances" THEN
        { ApiFailure("no_balances") }
            \cup {[success |-> TRUE, balances |-> b] :
                      b \in { [a \in {"0xflow"} |-> Text("", Some(100))],
                              [a \in {"0xflow"} |-> Text("", Some(10))],
                              [a \in {"0xflow"} |-> Text("MOCK_", Some(10))],
                              [a \in {"0xflow"} |-> Text("MOCK_", Some(100))],
                              [a \in {"0xusdc"} |-> Text("", Some(100))],
                              [a \in {"0xflow"} |-> Text("", Absent)] }}
    ELSE IF op = "get_swap_quote" THEN
        { ApiFailure("no_quote"),
          [success |-> TRUE, quote |-> [id |-> Some("q1"), amountOut |-> 19]],
          [success |-> TRUE, quote |-> [id |-> Absent, amountOut |-> 19]] }
    ELSE IF op = "get_staking_status" THEN
        { ApiFailure("no_status"),
          [success |-> TRUE, active_stakes |-> << >>],
          [success |-> TRUE, active_stakes |-> <<"stake1">>] }
    ELSE IF op = "get_delegator_info" THEN
        { ApiFailure("no_info"),
          [success |-> TRUE, delegator_info |-> << >>],
          [success |-> TRUE, delegator_info |-> <<[nodeID |-> "node7", id |-> 3]>>] }
    ELSE \* execute_swap, setup_staking_collection, execute_stake
        { ApiFailure("refused"), [success |-> TRUE, transaction_id |-> "tx1"] }

\* one call of perform_complete_swap or perform_complete_stake, the API
\* answering each request in any of these ways; amount_in is str(amount), a
\* number or a text that is none
NextExecutor ==
    \/ \E token_in_symbol \in {"flow", "usdc", "xyz"}, token_out_symbol \in {"USDC", "xyz"},
          amount_in \in {Text("", Some(20)), Text("", Some(0)), Text("", Absent)} :
           PerformCompleteSwap(token_in_symbol, token_out_symbol, amount_in)
    \/ \E tokens_result \in ApiAnswers("get_available_tokens") : SwapTokens(tokens_result)
    \/ \E balances_result \in ApiAnswers("get_user_balances") :
           SwapBalances(balances_result)
    \/ \E quote_result \in ApiAnswers("get_swap_quote") : SwapQuote(quote_result)
    \/ \E execute_result \in ApiAnswers("execute_swap") : SwapExecuted(execute_result)
    \/ \E validator \in {Absent, Some("blocto"), Some("default")} :
           PerformCompleteStake(Text("", Some(150)), validator)
    \/ \E status_result \in ApiAnswers("get_staking_status") : StakeStatus(status_result)
    \/ \E setup_result \in ApiAnswers("setup_staking_collection") :
           StakeSetup(setup_result)
    \/ \E delegator_result \in ApiAnswers("get_delegator_info") :
           StakeDelegator(delegator_result)
    \/ \E stake_result \in ApiAnswers("execute_stake") : StakeExecuted(stake_result)

SpecExecutor == InitWith({"rest_agent"}) /\ [][NextExecutor]_vars

----------------------------------------------------------------------------
(* Properties *)

\* the step just taken is the first stretch of a handler call
BeganRequest == n_requests' = n_requests + 1

\* the step just taken is a handle_message call returning
TalkReturned == last'.handler = "talk" /\ last'.phase = "done"

Succeeded(r) == IsActionResponse(r) /\ r.success

\* the "not found / expired" failure: success = false, or HTTP 404
IsNotFound(r) ==
    IF IsActionResponse(r) THEN ~r.success /\ r.message.kind = "not_found"
    ELSE r.fault = 404 /\ r.detail.kind = "not_found"

\* a request of user u is suspended at an await
Suspended(u) == \E s \in Slots : reqs[s] # Idle /\ reqs[s].user_id = u
TalkSuspended(u) == \E s \in Slots : reqs[s].kind = "talk" /\ reqs[s].user_id = u

RECURSIVE Total(_, _)
Total(calls, keys) ==
    IF keys = {} THEN 0
    ELSE LET k == CHOOSE x \in keys : TRUE IN calls[k] + Total(calls, keys \ {k})

\* how often the executor operations `ops` were invoked for action id `id`
CallsOf(calls, ops, id) ==
    Total(calls, {c \in DOMAIN calls : c.op \in ops /\ c.action_id = id})

\* the kinds of intent that are crypto actions, and the confidence a deployment
\* accepts them at
CryptoKinds == {"stake", "swap", "balance", "vault"}
AcceptanceThreshold(v) ==
    IF v = "rest_agent" THEN AGENT_CONFIDENCE_THRESHOLD ELSE CONFIDENCE_THRESHOLD

\* C1: a handle_message step invokes no executor operation, and a state-changing
\* executor operation (stake, swap, vault deposit, withdraw, redeem) is invoked
\* only by a step of handle_confirmation with confirmed = true, for the action
\* id of that call, which the call found in the pending registry (it is pending
\* now, or this call popped it and is suspended) and which a handle_message
\* stored before.
C1_ExecutorOnlyAfterConfirmation ==
    [][ /\ last'.handler = "talk" => executor_calls' = executor_calls
        /\ \A c \in DOMAIN executor_calls' :
               ( /\ c.op \in StateChangingOps
                 /\ CountOf(executor_calls', c) > CountOf(executor_calls, c) )
               => /\ last'.handler = "confirm"
                  /\ last'.confirmed
                  /\ last'.action_id = Some(c.action_id)
                  /\ CountOf(stored_count, c.action_id) > 0
                  /\ \/ c.action_id \in DOMAIN pending_actions
                     \/ \E s \in Slots : /\ reqs[s].kind = "confirm"
                                         /\ reqs[s].action_id = c.action_id
      ]_vars

\* C1 happens: a confirmed request has just invoked a state-changing operation
C1_Witness ==
    /\ last.handler = "confirm"
    /\ last.phase = "dispatch"
    /\ \E c \in DOMAIN executor_calls :
           c.op \in StateChangingOps /\ last.action_id = Some(c.action_id)

NewestTurns(turns) ==
    LET n == Len(turns) IN
    IF n <= MAX_HISTORY_LENGTH THEN turns
    ELSE [i \in 1..MAX_HISTORY_LENGTH |-> turns[n - MAX_HISTORY_LENGTH + i]]

\* C4: for a user whose requests never overlapped and who has no request
\* suspended, the stored history is the last MAX_HISTORY_LENGTH turns of the
\* full sequence of turns appended for that user, in their original order.
C4_HistoryIsNewestTurns ==
    \A u \in Users :
        (u \notin overlapped /\ ~Suspended(u)) =>
            HistoryOf(conversation_histories, u) = NewestTurns(full_turns[u])

\* C4 happens: more turns than the maximum, none overlapping, and the oldest
\* stored turn is not the first turn of the conversation
C4_Witness ==
    \E u \in Users :
        /\ u \notin overlapped
        /\ ~Suspended(u)
        /\ Len(full_turns[u]) > MAX_HISTORY_LENGTH
        /\ HistoryOf(conversation_histories, u) = NewestTurns(full_turns[u])
        /\ \E i \in 1..MAX_HISTORY_LENGTH :
               full_turns[u][i] # conversation_histories[u][i]

\* C5: a handle_message call whose classified intent is a crypto action with a
\* confidence below the deployment's acceptance threshold returns
\* requires_confirmation = false and leaves the pending registry unchanged.
C5_LowConfidenceIsConversation ==
    [][ ( /\ TalkReturned
          /\ The(last'.action).action_type \in CryptoKinds
          /\ The(last'.action).confidence < AcceptanceThreshold(variant) )
        => /\ ~The(last'.response).requires_confirmation
           /\ pending_actions' = pending_actions
      ]_vars

\* C6: a handle_message call whose classified intent is a stake, at or above
\* the threshold, with no validator or with an amount missing or <= 0, returns
\* a validation failure with requires_confirmation = false and leaves the
\* pending registry unchanged.
C6_InvalidStakeRejected ==
    [][ ( /\ TalkReturned
          /\ The(last'.action).action_type = "stake"
          /\ The(last'.action).confidence >= AcceptanceThreshold(variant)
          /\ LET p == The(last'.action).parameters IN
             \/ p.validator = {}
             \/ p.amount = {}
             \/ The(p.amount) <= 0 )
        => /\ ~The(last'.response).success
           /\ The(last'.response).message.kind = "validation_error"
           /\ ~The(last'.response).requires_confirmation
           /\ pending_actions' = pending_actions
      ]_vars

\* C7: a handle_message call whose classified intent is a swap, at or above the
\* threshold, with from_token equal to to_token, whatever its amount, returns
\* success = false and requires_confirmation = false and leaves the pending
\* registry unchanged.
C7_SameTokenSwapRejected ==
    [][ ( /\ TalkReturned
          /\ The(last'.action).action_type = "swap"
          /\ The(last'.action).confidence >= AcceptanceThreshold(variant)
          /\ LET p == The(last'.action).parameters IN
             /\ Has(p.from_token)
             /\ p.from_token = p.to_token )
        => /\ ~The(last'.response).success
           /\ ~The(last'.response).requires_confirmation
           /\ pending_actions' = pending_actions
      ]_vars

\* C8: a handle_message call returns requires_confirmation = true exactly when
\* it stored a pending action; the response then carries an action_id, that id
\* is the key under which the registry holds the classified intent (type,
\* confidence and parameters as the classifier returned them), and no other
\* entry of the registry changed.
C8_ConfirmationIffStored ==
    [][ TalkReturned =>
          LET r == The(last'.response)
              intent == The(last'.action)
          IN
          /\ r.requires_confirmation <=> stored_count' # stored_count
          /\ ~r.requires_confirmation => pending_actions' = pending_actions
          /\ r.requires_confirmation =>
                /\ Has(r.action_id)
                /\ The(r.action_id) \in DOMAIN pending_actions'
                /\ pending_actions'[The(r.action_id)] = intent
                /\ stored_count' = Bump(stored_count, The(r.action_id))
                /\ \A id \in DOMAIN pending_actions' \ {The(r.action_id)} :
                       id \in DOMAIN pending_actions
                       /\ pending_actions'[id] = pending_actions[id]
      ]_vars

\* C8 happens: "stake 150 FLOW with blocto" has just been stored and the
\* response asks for its confirmation
C8_Witness ==
    /\ last.handler = "talk"
    /\ last.phase = "done"
    /\ The(last.response).requires_confirmation
    /\ LET stored == pending_actions[The(The(last.response).action_id)] IN
       /\ stored.action_type = "stake"
       /\ stored.parameters.amount = {150}
       /\ stored.parameters.validator = {"blocto"}

\* invocations of the executor's stake operation for an action id
StakeCalls(calls, id) == CallsOf(calls, {"perform_complete_stake"}, id)

\* C9 (REST agent): the stake operation is invoked for an action id exactly
\* when a handle_confirmation call with confirmed = true finds a stake pending
\* under that id, once per such call and never more often than the id was
\* stored, whatever else is suspended; and a confirmation of a stake whose
\* executor call succeeded returns success = true.
C9_StakeExecutedOnce ==
    [][ /\ \A id \in ActionIds(variant) :
               LET confirms ==
                       /\ variant = "rest_agent"
                       /\ BeganRequest
                       /\ last'.handler = "confirm"
                       /\ last'.confirmed
                       /\ last'.action_id = Some(id)
                       /\ id \in DOMAIN pending_actions
                       /\ pending_actions[id].action_type = "stake"
               IN
               /\ StakeCalls(executor_calls', id) =
                      StakeCalls(executor_calls, id) + (IF confirms THEN 1 ELSE 0)
               /\ StakeCalls(executor_calls', id) <= CountOf(stored_count', id)
        /\ ( /\ last'.handler = "confirm"
             /\ last'.phase = "done"
             /\ last'.result = Some("success")
             /\ The(last'.action).action_type = "stake" )
           => Succeeded(The(last'.response))
      ]_vars

\* C9 happens: while the confirmation that popped a stake is suspended in the
\* executor, a second confirmation of the same id has returned "not found" and
\* the stake operation has been invoked once
C9_Witness ==
    \E s \in Slots :
        /\ reqs[s].kind = "confirm"
        /\ reqs[s].action.action_type = "stake"
        /\ last.handler = "confirm"
        /\ last.confirmed
        /\ last.action_id = Some(reqs[s].action_id)
        /\ Has(last.response)
        /\ IsNotFound(The(last.response))
        /\ StakeCalls(executor_calls, reqs[s].action_id) = 1

\* C10: a handle_confirmation call on an id that is not in the pending registry
\* returns the "not found / expired" failure and leaves the registry and every
\* user's conversation history as they were.
C10_AbsentIdChangesNothing ==
    [][ ( /\ BeganRequest
          /\ last'.handler = "confirm"
          /\ The(last'.action_id) \notin DOMAIN pending_actions )
        => /\ IsNotFound(The(last'.response))
           /\ pending_actions' = pending_actions
           /\ conversation_histories' = conversation_histories
      ]_vars

\* C10 happens: an id that was never stored is confirmed while the registry
\* holds another action and a history exists
C10_Witness ==
    /\ last.handler = "confirm"
    /\ Has(last.response)
    /\ IsNotFound(The(last.response))
    /\ CountOf(stored_count, The(last.action_id)) = 0
    /\ DOMAIN pending_actions # {}
    /\ DOMAIN conversation_histories # {}

\* the response is the cancellation acknowledgement
IsCancellation(r) ==
    /\ IsActionResponse(r)
    /\ r.success
    /\ r.message.kind = "cancelled"
    /\ ~r.requires_confirmation
    /\ r.function_call = Absent

\* C11: a handle_confirmation call with confirmed = false on an id that is in
\* the pending registry removes the id, returns the cancellation
\* acknowledgement without suspending, and invokes no executor operation.
C11_CancelRemovesWithoutExecuting ==
    [][ ( /\ BeganRequest
          /\ last'.handler = "confirm"
          /\ ~last'.confirmed
          /\ The(last'.action_id) \in DOMAIN pending_actions )
        => /\ The(last'.action_id) \notin DOMAIN pending_actions'
           /\ last'.phase = "done"
           /\ IsCancellation(The(last'.response))
           /\ executor_calls' = executor_calls
           /\ reqs' = reqs
      ]_vars

\* C11 happens: a pending stake has just been cancelled and is gone from the
\* registry
C11_Witness ==
    /\ last.handler = "confirm"
    /\ ~last.confirmed
    /\ Has(last.action)
    /\ The(last.action).action_type = "stake"
    /\ IsCancellation(The(last.response))
    /\ The(last.action_id) \notin DOMAIN pending_actions
    /\ CountOf(consumed_count, The(last.action_id)) = 1

\* C12: whenever a handle_message or handle_confirmation call has returned, what
\* the caller got is a response object with a success flag and a message, not a
\* raised fault, whatever the outcome (unknown id, validation failure, executor
\* failure, executor exception).
C12_AlwaysWellFormedResponse ==
    last.phase = "done" =>
        /\ Has(last.response)
        /\ IsActionResponse(The(last.response))
        /\ The(last.response).success \in BOOLEAN
        /\ "message" \in DOMAIN The(last.response)

\* the step just taken is a handle_confirmation call returning after the executor
\* reported a failure or raised
ExecutionFailed ==
    /\ last'.handler = "confirm"
    /\ last'.phase = "done"
    /\ last'.result \in {Some("failure"), Some("raised")}

\* C13 (REST agent): a handle_confirmation call whose executor call reported a
\* failure or raised returns success = false with the executor's message or the
\* technical error, invokes no further executor operation and does not put the
\* action back; and a confirmation of an id whose registrations have all been
\* consumed returns "not found" and invokes nothing.
C13_FailureIsFinal ==
    [][ /\ ExecutionFailed =>
               LET r == The(last'.response)
                   id == The(last'.action_id)
               IN
               /\ IsActionResponse(r)
               /\ ~r.success
               /\ r.message.kind =
                      (IF last'.result = Some("raised") THEN "technical_error"
                       ELSE "execution_failed")
               /\ executor_calls' = executor_calls
               /\ id \in DOMAIN pending_actions' =>
                      /\ id \in DOMAIN pending_actions
                      /\ pending_actions'[id] = pending_actions[id]
        /\ ( /\ BeganRequest
             /\ last'.handler = "confirm"
             /\ CountOf(consumed_count, The(last'.action_id)) > 0
             /\ CountOf(consumed_count, The(last'.action_id)) >=
                    CountOf(stored_count, The(last'.action_id)) )
           => /\ IsNotFound(The(last'.response))
              /\ executor_calls' = executor_calls
      ]_vars

\* C13 happens: the one executor call made so far ended in a failure that is in
\* the user's history, and a second confirmation of that id has just returned
\* "not found"
C13_Witness ==
    /\ last.handler = "confirm"
    /\ last.confirmed
    /\ Has(last.response)
    /\ IsNotFound(The(last.response))
    /\ CountOf(stored_count, The(last.action_id)) = 1
    /\ CountOf(consumed_count, The(last.action_id)) = 1
    /\ Total(executor_calls, DOMAIN executor_calls) = 1
    /\ \E c \in DOMAIN executor_calls : c.action_id = The(last.action_id)
    /\ \E i \in 1..Len(HistoryOf(conversation_histories, last.user_id)) :
           LET turn == conversation_histories[last.user_id][i] IN
           /\ turn.role = "assistant"
           /\ turn.content.kind \in {"execution_failed", "technical_error"}

\* C14: once no request of a user is suspended, the stored history holds every
\* turn appended for that user by any request, overlapping or not, up to the
\* truncation to the last MAX_HISTORY_LENGTH: it is as long as the number of
\* turns appended, or MAX_HISTORY_LENGTH when more were.
C14_NoLostTurns ==
    \A u \in Users :
        ~Suspended(u) =>
            Len(HistoryOf(conversation_histories, u)) =
                (IF Len(full_turns[u]) <= MAX_HISTORY_LENGTH THEN Len(full_turns[u])
                 ELSE MAX_HISTORY_LENGTH)

\* the address-format check of a Balance intent: present, "0x...", 8 or more long
ValidWallet(action) ==
    /\ Has(action.parameters.wallet_address)
    /\ The(action.parameters.wallet_address).starts_0x
    /\ The(action.parameters.wallet_address).len >= MIN_ADDRESS_LENGTH

\* C15: a handle_message call whose classified intent is a Balance with a valid
\* wallet address and a confidence at or above the deployment's threshold
\* returns success with the check_balance call descriptor for that address,
\* requires_confirmation = false and no action id, and leaves the pending
\* registry and the executor untouched.
C15_BalanceNeedsNoConfirmation ==
    [][ ( /\ TalkReturned
          /\ The(last'.action).action_type = "balance"
          /\ The(last'.action).confidence >= AcceptanceThreshold(variant)
          /\ ValidWallet(The(last'.action)) )
        => LET r == The(last'.response) IN
           /\ Succeeded(r)
           /\ ~r.requires_confirmation
           /\ r.action_id = Absent
           /\ Has(r.function_call)
           /\ The(r.function_call).fn = "check_balance"
           /\ The(r.function_call).parameters.wallet_address =
                  The(last'.action).parameters.wallet_address
           /\ pending_actions' = pending_actions
           /\ executor_calls' = executor_calls
      ]_vars

\* C15 happens: a balance request for a valid address has just been answered
\* with the call descriptor
C15_Witness ==
    /\ last.handler = "talk"
    /\ last.phase = "done"
    /\ The(last.action).action_type = "balance"
    /\ The(last.action).confidence >= AcceptanceThreshold(variant)
    /\ ValidWallet(The(last.action))
    /\ Has(The(last.response).function_call)
    /\ The(The(last.response).function_call).fn = "check_balance"

\* C16: a handle_message call whose classified intent is Conversation or Unknown
\* returns the classifier's user_response as its message, unchanged, with
\* requires_confirmation = false and no action id, and leaves the pending
\* registry unchanged, whatever the confidence.
C16_ConversationReturnsReply ==
    [][ ( /\ TalkReturned
          /\ The(last'.action).action_type \in {"conversation", "unknown"} )
        => LET r == The(last'.response) IN
           /\ IsActionResponse(r)
           /\ r.message.text = The(last'.action).user_response
           /\ ~r.requires_confirmation
           /\ r.action_id = Absent
           /\ pending_actions' = pending_actions
      ]_vars

\* the LLM call failed, or its output cannot be made into a ParsedAction: no
\* content, content that is no JSON, an exception of the client, an action_type
\* that is no member of the deployment's ActionType
ClassifierFailed(v, llm) ==
    llm.status # "json" \/ llm.action_type \notin ActionTypeEnum(v)

\* C17: for every failing classifier output the classifier returns the fallback
\* intent (Conversation, confidence 0.5, no parameters, the "please rephrase"
\* reply), and a handle_message call whose classification failed answers with
\* that reply, requires_confirmation = false and no action id, and leaves the
\* pending registry unchanged.
C17_FailedClassificationIsConversation ==
    [][ \A llm \in LLMOutputs :
            ClassifierFailed(variant, llm) =>
                /\ \A raw \in Texts :
                       analyze_message(variant, raw, llm) =
                           ParsedAction("conversation", 50, NoParams, raw,
                                        "fallback_rephrase")
                /\ ( /\ TalkReturned
                     /\ The(last'.action) =
                            analyze_message(variant, The(last'.action).raw_message, llm) )
                   => LET r == The(last'.response) IN
                      /\ IsActionResponse(r)
                      /\ r.message.text = "fallback_rephrase"
                      /\ ~r.requires_confirmation
                      /\ r.action_id = Absent
                      /\ pending_actions' = pending_actions
      ]_vars

\* C17 happens: a message whose classification failed has just been answered
\* with the fallback reply
C17_Witness ==
    /\ last.handler = "talk"
    /\ last.phase = "done"
    /\ \E llm \in LLMOutputs :
           /\ ClassifierFailed(variant, llm)
           /\ The(last.action) = analyze_message(variant, "ta", llm)
    /\ The(last.response).message.text = "fallback_rephrase"

\* C18: a step of a handle_message or handle_confirmation call made for one
\* user leaves the stored history of every other user as it was (present or
\* absent, and turn for turn), whatever requests of other users are suspended.
C18_OtherHistoriesUntouched ==
    [][ \A u \in Users :
            u # last'.user_id =>
                /\ (u \in DOMAIN conversation_histories') =
                       (u \in DOMAIN conversation_histories)
                /\ HistoryOf(conversation_histories', u) =
                       HistoryOf(conversation_histories, u)
      ]_vars

\* C18 happens: a call of one user has just returned and written their history
\* while a request of another user, who has a stored history, is suspended
C18_Witness ==
    /\ last.phase = "done"
    /\ last.user_id \in DOMAIN conversation_histories
    /\ \E u \in DOMAIN conversation_histories :
           /\ u # last.user_id
           /\ Suspended(u)
           /\ Len(conversation_histories[u]) >= 2

\* whether the call of method m on probed address a answered
Answered(a, m) == probes[a].usable /\ Has(The(probes[a].answers)[m])

InValidVaults(a) == \E i \in DOMAIN scan.valid_vaults : scan.valid_vaults[i].address = a

\* C19: a probed address is accepted as a vault exactly when its asset() and
\* totalAssets() calls both answered, and is recorded as failed otherwise; any
\* other probed method that raises does not reject it, it only leaves its field
\* out of the record, and every method that answered has its value recorded
C19_AcceptedIffAssetAndTotalAssets ==
    \A a \in DOMAIN probes :
        LET accepted == a \in DOMAIN verified_vaults IN
        /\ accepted <=> (Answered(a, "asset") /\ Answered(a, "totalAssets"))
        /\ accepted <=> InValidVaults(a)
        /\ accepted <=> a \notin failed_contracts
        /\ accepted =>
               \A m \in Methods :
                   /\ m \in DOMAIN verified_vaults[a] <=> Answered(a, m)
                   /\ Answered(a, m) =>
                          verified_vaults[a][m] = The(The(probes[a].answers)[m])

\* one contract accepted although one of its other methods raised, and one
\* rejected whose totalAssets() alone raised
C19_Witness ==
    /\ \E a \in DOMAIN verified_vaults :
           \E m \in Methods \ {"asset", "totalAssets"} :
               ~Answered(a, m) /\ m \notin DOMAIN verified_vaults[a]
    /\ \E b \in failed_contracts :
           /\ b \in DOMAIN probes
           /\ probes[b].usable
           /\ \A m \in Methods : Answered(b, m) <=> m # "totalAssets"

\* C20: a vault whose totalSupply is 0 has no share price field, neither in the
\* record the scan returns nor in its entry of the report: nothing is divided by
\* zero and no placeholder stands in for the price
C20_NoSharePriceAtZeroSupply ==
    /\ \A a \in DOMAIN verified_vaults :
           LET info == verified_vaults[a] IN
           ("totalSupply" \in DOMAIN info /\ info["totalSupply"] = 0) =>
               "share_price" \notin DOMAIN info
    /\ Has(results_data) =>
           LET vaults == The(results_data).report.vaults IN
           \A i \in DOMAIN vaults :
               vaults[i].total_supply = Present([str |-> 0]) =>
                   "share_price" \notin DOMAIN vaults[i]

\* scan_for_vaults has returned: valid_vaults is final
ScanReturned == scan.pc \in {"probing", "done"} /\ scan.todo = {}

\* the contracts that emitted one of the five events in the scanned range
Emitters ==
    {l.address : l \in {x \in chain.logs :
                            /\ scan.from_block <= x.block /\ x.block <= scan.to_block
                            /\ Len(x.topics) > 0
                            /\ x.topics[1] \in Range(event_names)}}

\* every probed method of a answered
Conformant(a) == \A m \in Methods : Answered(a, m)

\* amounts are in units of 10^18 wei
HasTotals(a, total_assets, total_supply) ==
    /\ The(The(probes[a].answers)["totalAssets"]) = total_assets
    /\ The(The(probes[a].answers)["totalSupply"]) = total_supply

\* C21: when one conformant contract alone emitted matching events in the
\* scanned range and its totalAssets is 1000e18 and its totalSupply 500e18, the
\* scan (whose log queries lost nothing) returns exactly one vault record, that
\* contract's, and its share price is totalAssets / totalSupply = 2
C21_OneVaultWithSharePriceTwo ==
    (ScanReturned /\ ~scan.missed) =>
        \A a \in Emitters :
            Emitters = {a} =>
                /\ a \in DOMAIN probes
                /\ (Conformant(a) /\ HasTotals(a, 1000, 500)) =>
                       /\ Len(scan.valid_vaults) = 1
                       /\ scan.valid_vaults[1].address = a
                       /\ DOMAIN verified_vaults = {a}
                       /\ "share_price" \in DOMAIN scan.valid_vaults[1].info
                       /\ LET share_price == scan.valid_vaults[1].info["share_price"]
                          IN share_price.den > 0 /\ share_price.num = 2 * share_price.den

C21_Witness ==
    /\ ScanReturned
    /\ ~scan.missed
    /\ Emitters = {"a1"}
    /\ "a1" \in DOMAIN probes
    /\ Conformant("a1")
    /\ HasTotals("a1", 1000, 500)
    /\ Len(scan.valid_vaults) = 1

\* the candidates whose asset() and totalAssets() answered
Confirmed == {a \in DOMAIN probes : Answered(a, "asset") /\ Answered(a, "totalAssets")}

\* C22: once the block range is fixed, whatever log queries and probing calls
\* fail, the scan never ends on an error, it returns, and what it returns is
\* the vaults that were confirmed among all its candidates
C22_ScanAlwaysReturnsConfirmed ==
    /\ [](scan.pc \in {"get_logs", "extract", "probing", "done"} =>
              scan.todo \cup DOMAIN probes = scan.contract_addresses)
    /\ [](ScanReturned =>
              /\ DOMAIN probes = scan.contract_addresses
              /\ {scan.valid_vaults[i].address : i \in DOMAIN scan.valid_vaults}
                     = Confirmed
              /\ Len(scan.valid_vaults) = Cardinality(Confirmed))
    /\ (scan.pc = "get_logs") ~> ScanReturned

\* a scan that returned although a log query got no answer and a probed method
\* of the vault it confirmed raised
C22_Witness ==
    /\ ScanReturned
    /\ scan.missed
    /\ \E a \in Confirmed : ~Conformant(a)

\* C29: the chunks get_logs_in_chunks queries partition [from_block, to_block]:
\* the first starts at from_block, each next one starts on the block after the
\* one before ended, none spans more than chunk_size blocks, and when the
\* queries are over the last one ended at to_block
C29_ChunksPartitionTheRange ==
    scan.pc \in {"get_logs", "extract"} =>
        LET q == scan.all_logs IN
        /\ \A i \in DOMAIN q :
               /\ q[i].start_block <= q[i].end_block
               /\ q[i].end_block - q[i].start_block + 1 <= CHUNK_SIZE
               /\ scan.from_block <= q[i].start_block
               /\ q[i].end_block <= scan.to_block
        /\ Len(q) > 0 => q[1].start_block = scan.from_block
        /\ \A i \in 1..(Len(q) - 1) :
               \/ /\ q[i + 1].start_block = q[i].start_block
                  /\ q[i + 1].end_block = q[i].end_block
               \/ q[i + 1].start_block = q[i].end_block + 1
        /\ scan.pc = "extract" => (Len(q) > 0 /\ q[Len(q)].end_block = scan.to_block)

\* the queries are over and went through three chunks, the last of one block
C29_Witness ==
    /\ scan.pc = "extract"
    /\ Cardinality({scan.all_logs[i].start_block : i \in DOMAIN scan.all_logs}) = 3
    /\ scan.all_logs[Len(scan.all_logs)].start_block = scan.to_block

\* C30: every (chunk, topic) query adds the logs of the chunk whose first topic
\* is the topic, whether the filtered query answered or the unfiltered one did
\* after it failed; it adds nothing when both failed; and in each case the scan
\* goes on: the queries made are the five topics of each chunk, in order, and
\* none is skipped
C30_FallbackKeepsTheSameLogs ==
    scan.pc \in {"get_logs", "extract"} =>
        LET q == scan.all_logs IN
        /\ Len(q) > 0 =>
               LET got == q[Len(q)] IN
               /\ scan.outcome \in {"filtered", "fallback"} =>
                      got.logs = {l \in chain.logs :
                                     /\ got.start_block <= l.block
                                     /\ l.block <= got.end_block
                                     /\ Len(l.topics) > 0
                                     /\ l.topics[1] = got.topic}
               /\ scan.outcome = "nothing" => got.logs = {}
        /\ \A i \in DOMAIN q : q[i].topic = event_names[((i - 1) % Len(event_names)) + 1]
        /\ \A i \in 1..(Len(q) - 1) :
               (q[i + 1].start_block = q[i].start_block) <=> (i % Len(event_names) # 0)
        /\ scan.pc = "extract" => Len(q) % Len(event_names) = 0
        /\ scan.pc = "get_logs" =>
               /\ scan.topic = (Len(q) % Len(event_names)) + 1
               /\ Len(q) > 0 =>
                      (scan.start_block = q[Len(q)].start_block <=> scan.topic # 1)

\* the filtered query failed and the unfiltered one answered, for a chunk that
\* holds a log of the topic, which was kept, and a log without topics
C30_Witness ==
    /\ scan.pc = "get_logs"
    /\ scan.outcome = "fallback"
    /\ LET got == scan.all_logs[Len(scan.all_logs)] IN
       /\ got.logs # {}
       /\ \E l \in chain.logs :
              /\ got.start_block <= l.block
              /\ l.block <= got.end_block
              /\ Len(l.topics) = 0

\* C23: a handle_message call that stores a pending action stores it under an
\* id that is not in the registry at that moment, so it replaces no entry (also
\* when the same user sends the same text again)
C23_NewIdIsNotLive ==
    [][ \A id \in DOMAIN stored_count' :
            CountOf(stored_count', id) > CountOf(stored_count, id) =>
                id \notin DOMAIN pending_actions ]_vars

\* C24: an id leaves the pending registry only in a step of a confirmation
\* request that names it: a message, a confirmation of another id, the clearing
\* of a conversation or the end of a suspended call removes none
C24_RemovedOnlyByItsConfirmation ==
    [][ \A id \in DOMAIN pending_actions :
            id \notin DOMAIN pending_actions' =>
                /\ last'.handler = "confirm"
                /\ last'.action_id = Some(id) ]_vars

\* the user's conversation was cleared while their action was pending, and the
\* action is still there
C24_Witness ==
    /\ last.handler = "clear"
    /\ \E id \in DOMAIN pending_actions :
           id.user = last.user_id /\ CountOf(consumed_count, id) = 0

\* C25: a handle_message call whose classified intent is a Balance, at or
\* above the threshold, with a wallet address that is missing, does not start
\* with "0x" or is shorter than 8 characters, returns success = false and
\* requires_confirmation = false, without a call descriptor
C25_InvalidWalletRejected ==
    [][ ( /\ TalkReturned
          /\ The(last'.action).action_type = "balance"
          /\ The(last'.action).confidence >= AcceptanceThreshold(variant)
          /\ ~ValidWallet(The(last'.action)) )
        => LET r == The(last'.response) IN
           /\ ~r.success
           /\ ~r.requires_confirmation
           /\ r.function_call = Absent
      ]_vars

\* a Vault intent without a known vault_action, or without the vault address
\* its action needs
InvalidVault(action) ==
    /\ action.action_type = "vault"
    /\ LET p == action.parameters IN
       \/ p.vault_action = {}
       \/ The(p.vault_action) \notin {"deposit", "withdraw", "redeem", "info", "portfolio"}
       \/ /\ The(p.vault_action) \in {"deposit", "withdraw", "redeem", "info"}
          /\ p.vault_address = {}

\* C26: a handle_message call whose classified intent is such a Vault intent, at
\* or above the threshold, returns a validation failure and stores nothing, so
\* the pending registry never holds one that a confirmation could dispatch
C26_InvalidVaultRejected ==
    [][ /\ ( /\ TalkReturned
              /\ The(last'.action).confidence >= AcceptanceThreshold(variant)
              /\ InvalidVault(The(last'.action)) )
            => /\ ~The(last'.response).success
               /\ ~The(last'.response).requires_confirmation
               /\ pending_actions' = pending_actions
        /\ \A id \in DOMAIN pending_actions' : ~InvalidVault(pending_actions'[id])
      ]_vars

\* the step just taken is a handle_confirmation call returning for an id it
\* found in the registry
ConfirmReturnedFound ==
    /\ last' # last
    /\ last'.handler = "confirm"
    /\ last'.phase = "done"
    /\ Has(last'.action)

\* C27: a handle_confirmation call on an id it found leaves, as the history of
\* the request's user, the history it had with two turns appended, a user turn
\* "yes" or "no" and then an assistant turn with the message the call returns,
\* cut to the newest MAX_HISTORY_LENGTH turns
C27_ConfirmationAppendsTwoTurns ==
    [][ ConfirmReturnedFound =>
            LET u == last'.user_id
                r == The(last'.response)
                said == IF last'.confirmed THEN {"yes", "oui"} ELSE {"no", "non"}
            IN
            /\ IsActionResponse(r)
            /\ u \in DOMAIN conversation_histories'
            /\ \E word \in said :
                   conversation_histories'[u] =
                       LastN(Append(Append(HistoryOf(conversation_histories, u),
                                           UserTurn(word)),
                                    Turn("assistant", r.message)),
                             MAX_HISTORY_LENGTH)
      ]_vars

\* C28: a handle_message call hands the classifier the user's history with the
\* text appended as a user turn and cut to the newest MAX_HISTORY_LENGTH turns,
\* and when it returns, whatever the response path, it stores that history with
\* one assistant turn appended, the message it returns, cut again
C28_TalkAppendsUserThenAssistant ==
    [][ /\ (last'.handler = "talk" /\ last'.phase = "start") =>
               \E s \in Slots :
                   /\ reqs[s] = Idle
                   /\ reqs'[s].kind = "talk"
                   /\ reqs'[s].history =
                          LastN(Append(HistoryOf(conversation_histories,
                                                 reqs'[s].user_id),
                                       UserTurn(reqs'[s].content)),
                                MAX_HISTORY_LENGTH)
        /\ (TalkReturned) =>
               LET u == last'.user_id
                   r == The(last'.response)
                   text == The(last'.action).raw_message
                   given ==
                       IF \E s \in Slots : reqs[s].kind = "talk" /\ reqs'[s] = Idle
                       THEN LET s == CHOOSE s \in Slots :
                                         reqs[s].kind = "talk" /\ reqs'[s] = Idle
                            IN reqs[s].history
                       ELSE LastN(Append(HistoryOf(conversation_histories, u),
                                         UserTurn(text)),
                                  MAX_HISTORY_LENGTH)
               IN
               /\ IsActionResponse(r)
               /\ given[Len(given)] = UserTurn(text)
               /\ u \in DOMAIN conversation_histories'
               /\ conversation_histories'[u] =
                      LastN(Append(given, Turn("assistant", r.message)),
                            MAX_HISTORY_LENGTH)
      ]_vars

\* C31: the candidate set extract_contract_addresses returns holds the emitting
\* address of every log the queries returned and no other address; the scan
\* then probes each candidate once, however many logs, topics or chunks named
\* it, and has probed exactly the candidates when it returns
C31_CandidatesAreTheEmitters ==
    [][ /\ (scan.pc = "extract" /\ scan'.pc = "probing") =>
               LET matched == UNION {scan.all_logs[i].logs : i \in DOMAIN scan.all_logs}
               IN
               /\ \A l \in matched : l.address \in scan'.contract_addresses
               /\ \A a \in scan'.contract_addresses : \E l \in matched : l.address = a
               /\ scan'.todo = scan'.contract_addresses
               /\ probes' = << >>
        /\ (scan.pc = "probing" /\ scan'.pc = "probing" /\ scan' # scan) =>
               \E a \in scan.todo :
                   /\ a \notin DOMAIN probes
                   /\ DOMAIN probes' = DOMAIN probes \cup {a}
                   /\ scan'.todo = scan.todo \ {a}
                   /\ scan'.contract_addresses = scan.contract_addresses
                   /\ Len(scan'.valid_vaults) + Cardinality(failed_contracts')
                          = Cardinality(DOMAIN probes')
        /\ (scan.pc = "probing" /\ scan'.pc = "done") =>
               /\ DOMAIN probes = scan.contract_addresses
               /\ probes' = probes
      ]_vars

\* a scan returned after probing its one candidate, a contract that two
\* queries of the same chunk each returned a log of
C31_Witness ==
    /\ ScanReturned
    /\ ~scan.missed
    /\ scan.contract_addresses = {"a1"}
    /\ DOMAIN probes = {"a1"}
    /\ Cardinality(FilteredQuery(chain.logs, scan.from_block, scan.to_block, "Deposit")
                       \cup FilteredQuery(chain.logs, scan.from_block, scan.to_block,
                                          "Transfer")) = 2

\* the three fields the probe of the underlying asset's contract gives
asset_fields == {"asset_name", "asset_symbol", "asset_decimals"}

\* the calls made on the asset's contract for accepted vault a, and whether
\* one of them raised
AssetAnswers(a) == The(probes[a].asset_answers)
AssetProbeFailed(a) == \E m \in Range(asset_methods) : ~Has(AssetAnswers(a)[m])

\* C32: a candidate whose asset() and totalAssets() answered is an accepted
\* vault whether or not the calls on its asset's contract answered; when one of
\* them raised its record has none of asset_name, asset_symbol, asset_decimals,
\* else it has the three; and every field read from the vault itself is in
\* the record with the value read
C32_AssetProbeFailureKeepsTheVault ==
    \A a \in Confirmed :
        /\ a \in DOMAIN verified_vaults
        /\ InValidVaults(a)
        /\ a \notin failed_contracts
        /\ Has(probes[a].asset_answers)
        /\ LET info == verified_vaults[a] IN
           /\ AssetProbeFailed(a) => asset_fields \cap DOMAIN info = {}
           /\ ~AssetProbeFailed(a) =>
                  /\ asset_fields \subseteq DOMAIN info
                  /\ info["asset_name"] = The(AssetAnswers(a)["name"])
                  /\ info["asset_symbol"] = The(AssetAnswers(a)["symbol"])
                  /\ info["asset_decimals"] = The(AssetAnswers(a)["decimals"])
           /\ \A m \in Methods :
                  Answered(a, m) =>
                      /\ m \in DOMAIN info
                      /\ info[m] = The(The(probes[a].answers)[m])
           /\ \A i \in DOMAIN scan.valid_vaults :
                  scan.valid_vaults[i].address = a => scan.valid_vaults[i].info = info

\* the scan returned a vault whose asset's name() answered and symbol() raised
C32_Witness ==
    /\ ScanReturned
    /\ \E a \in DOMAIN verified_vaults :
           /\ InValidVaults(a)
           /\ Has(AssetAnswers(a)["name"])
           /\ ~Has(AssetAnswers(a)["symbol"])
           /\ "name" \in DOMAIN verified_vaults[a]

\* C33: the record of an accepted vault whose totalAssets() and totalSupply()
\* both answered has total_assets_formatted and total_supply_formatted, the two
\* amounts scaled down by 10^18, also when totalSupply is 0
C33_FormattedTotalsAlways ==
    \A a \in DOMAIN verified_vaults :
        LET info == verified_vaults[a] IN
        (Answered(a, "totalAssets") /\ Answered(a, "totalSupply")) =>
            /\ "total_assets_formatted" \in DOMAIN info
            /\ "total_supply_formatted" \in DOMAIN info
            /\ info["total_assets_formatted"] = FromWei(info["totalAssets"])
            /\ info["total_supply_formatted"] = FromWei(info["totalSupply"])

\* C34: while a handle_message request of a user is suspended in the classifier
\* call, the history stored for that user, which any concurrent request reads,
\* has at most MAX_HISTORY_LENGTH turns
C34_StoredHistoryBoundedWhileSuspended ==
    \A u \in Users :
        TalkSuspended(u) =>
            Len(HistoryOf(conversation_histories, u)) <= MAX_HISTORY_LENGTH

\* a history of whole exchanges: a user turn, then an assistant turn, and so on
Alternates(history) ==
    /\ Len(history) % 2 = 0
    /\ \A i \in DOMAIN history :
           history[i].role = IF i % 2 = 1 THEN "user" ELSE "assistant"

\* C35: as long as no two requests of a user have overlapped, the history
\* stored for that user has, in every state, an even number of turns, begins
\* with a user turn and alternates user and assistant turns
C35_HistoryAlternates ==
    \A u \in Users :
        u \notin overlapped => Alternates(HistoryOf(conversation_histories, u))

\* C36: handle_confirmation pops the pending action its action_id names whoever
\* the request's user_id is; every executor call of that confirmation has the
\* request's user_id as its user address, and the two turns it records go to
\* the history of the request's user, the history of the user whose message
\* stored the action being left as it is
C36_ConfirmationActsForTheRequester ==
    [][ /\ ( /\ BeganRequest
             /\ last'.handler = "confirm"
             /\ The(last'.action_id) \in DOMAIN pending_actions )
            => /\ Has(last'.action)
               /\ The(last'.action) = pending_actions[The(last'.action_id)]
               /\ The(last'.action_id) \notin DOMAIN pending_actions'
        /\ (last'.handler = "confirm" /\ last' # last) =>
               \A c \in DOMAIN executor_calls' :
                   CountOf(executor_calls', c) > CountOf(executor_calls, c) =>
                       /\ c.action_id = The(last'.action_id)
                       /\ c.user_address = last'.user_id
        /\ (ConfirmReturnedFound /\ variant # "msg_agent") =>
               LET u == last'.user_id
                   creator == The(last'.action_id).user
                   r == The(last'.response)
                   turns == <<UserTurn(ConfirmationText(variant, last'.confirmed)),
                              Turn("assistant", r.message)>>
               IN
               /\ u \in DOMAIN conversation_histories'
               /\ conversation_histories'[u] =
                      LastN(HistoryOf(conversation_histories, u) \o turns,
                            MAX_HISTORY_LENGTH)
               /\ creator # u =>
                      HistoryOf(conversation_histories', creator)
                          = HistoryOf(conversation_histories, creator)
      ]_vars

\* a user's confirmation of an action stored for another user's message has
\* called the executor with the confirming user's id
C36_Witness ==
    /\ last.handler = "confirm"
    /\ last.phase = "dispatch"
    /\ last.user_id # The(last.action_id).user
    /\ \E c \in DOMAIN executor_calls :
           /\ c.action_id = The(last.action_id)
           /\ c.user_address = last.user_id
           /\ c.op \in StateChangingOps

\* the request of slot s is a confirmed vault deposit waiting for get_vault_info
AwaitsDepositInfo(s) == reqs[s].kind = "confirm" /\ reqs[s].awaiting = "deposit_info"

\* C37: a confirmed vault deposit calls get_vault_info first; vault_deposit is
\* called only by the step that follows a fetch that succeeded and named the
\* asset's address, once, for the same action id and user; after any other
\* fetch the confirmation returns success = false and no executor call is made
C37_DepositOnlyAfterVaultInfo ==
    [][ /\ \A c \in DOMAIN executor_calls' :
               ( /\ c.op = "vault_deposit"
                 /\ CountOf(executor_calls', c) > CountOf(executor_calls, c) )
               => /\ \E s \in Slots :
                         /\ AwaitsDepositInfo(s)
                         /\ reqs[s].action_id = c.action_id
                         /\ reqs[s].user_id = c.user_address
                         /\ reqs'[s].awaiting = "result"
                  /\ last'.result = Some("info_with_asset")
                  /\ CallsOf(executor_calls, {"get_vault_info"}, c.action_id) >= 1
                  /\ CountOf(executor_calls', c) = CountOf(executor_calls, c) + 1
        /\ \A s \in Slots :
               (reqs[s] = Idle /\ reqs'[s] # Idle /\ AwaitsDepositInfo(s)') =>
                   /\ CallsOf(executor_calls', {"get_vault_info"}, reqs'[s].action_id)
                          = CallsOf(executor_calls, {"get_vault_info"},
                                    reqs'[s].action_id) + 1
                   /\ CallsOf(executor_calls', {"vault_deposit"}, reqs'[s].action_id)
                          = CallsOf(executor_calls, {"vault_deposit"}, reqs'[s].action_id)
        /\ \A s \in Slots :
               (AwaitsDepositInfo(s) /\ reqs'[s] = Idle) =>
                   /\ executor_calls' = executor_calls
                   /\ last'.handler = "confirm"
                   /\ last'.phase = "done"
                   /\ last'.action_id = Some(reqs[s].action_id)
                   /\ IsActionResponse(The(last'.response))
                   /\ ~The(last'.response).success
      ]_vars

\* a confirmed deposit whose fetch named the asset has called vault_deposit
C37_Witness ==
    /\ last.handler = "confirm"
    /\ last.result = Some("info_with_asset")
    /\ \E c \in DOMAIN executor_calls :
           /\ c.op = "vault_deposit"
           /\ c.action_id = The(last.action_id)
           /\ CallsOf(executor_calls, {"get_vault_info"}, c.action_id) >= 1

\* how often the call in progress has awaited `op`
TimesAwaited(op) ==
    Cardinality({i \in DOMAIN crypto_call.calls : crypto_call.calls[i] = op})

\* the user's balance of the token sold came back and is a number below amount
BalanceKnownTooLow ==
    /\ Has(crypto_call.balances_result)
    /\ The(crypto_call.balances_result).success
    /\ Has(crypto_call.amount_in.number)
    /\ \E t \in Range(The(crypto_call.tokens_result).tokens) :
           LET balances == The(crypto_call.balances_result).balances IN
           /\ Upper(t.symbol) = Upper(crypto_call.token_in_symbol)
           /\ t.address \in DOMAIN balances
           /\ Has(balances[t.address].number)
           /\ The(balances[t.address].number) < The(crypto_call.amount_in.number)

\* C38: perform_complete_swap awaits execute_swap at most once, after the
\* token list, the balances and the quote, and only when the list held both
\* symbols and the quote request succeeded; never when the balances came back
\* with a balance of the token sold below the amount; and a call that returns
\* without having awaited execute_swap returns success = false
C38_SwapExecutedOnlyAfterChecks ==
    crypto_call.pc # "not_called" /\ crypto_call.fn = "perform_complete_swap" =>
        /\ TimesAwaited("execute_swap") <= 1
        /\ TimesAwaited("execute_swap") = 1 =>
               /\ crypto_call.calls = <<"get_available_tokens", "get_user_balances",
                                        "get_swap_quote", "execute_swap">>
               /\ Has(crypto_call.tokens_result)
               /\ The(crypto_call.tokens_result).success
               /\ \A symbol \in {crypto_call.token_in_symbol, crypto_call.token_out_symbol} :
                      \E t \in Range(The(crypto_call.tokens_result).tokens) :
                          Upper(t.symbol) = Upper(symbol)
               /\ Has(crypto_call.quote_result)
               /\ The(crypto_call.quote_result).success
               /\ ~BalanceKnownTooLow
        /\ (crypto_call.pc = "returned" /\ TimesAwaited("execute_swap") = 0) =>
               ~The(crypto_call.result).success

\* a swap was executed for a user whose mock balance covers the amount
C38_Witness ==
    /\ crypto_call.pc = "returned"
    /\ crypto_call.fn = "perform_complete_swap"
    /\ TimesAwaited("execute_swap") = 1
    /\ The(crypto_call.result).success
    /\ The(crypto_call.balances_result).success
    /\ \E a \in DOMAIN The(crypto_call.balances_result).balances :
           The(crypto_call.balances_result).balances[a].prefix = "MOCK_"

\* C39: perform_complete_stake awaits execute_stake at most once, and never
\* after a setup of the staking collection (made because the status lookup
\* failed or showed no active stake) that failed: the call then returns
\* success = false
C39_NoStakeAfterFailedSetup ==
    crypto_call.pc # "not_called" /\ crypto_call.fn = "perform_complete_stake" =>
        LET setup_made == TimesAwaited("setup_staking_collection") > 0
            setup_failed == /\ Has(crypto_call.setup_result)
                            /\ ~The(crypto_call.setup_result).success
        IN
        /\ TimesAwaited("execute_stake") <= 1
        /\ TimesAwaited("setup_staking_collection") <= 1
        /\ (Has(crypto_call.status_result) /\ crypto_call.pc # "get_staking_status") =>
               (setup_made <=>
                    \/ ~The(crypto_call.status_result).success
                    \/ Len(The(crypto_call.status_result).active_stakes) = 0)
        /\ setup_failed =>
               /\ TimesAwaited("execute_stake") = 0
               /\ crypto_call.pc = "returned"
               /\ ~The(crypto_call.result).success

\* the status lookup failed, the setup it led to failed too, and the call
\* returned
C39_Witness ==
    /\ crypto_call.pc = "returned"
    /\ crypto_call.fn = "perform_complete_stake"
    /\ ~The(crypto_call.status_result).success
    /\ Has(crypto_call.setup_result)
    /\ ~The(crypto_call.setup_result).success
    /\ TimesAwaited("execute_stake") = 0

====
